---- MODULE Spec2Model ----
(***************************************************************************)
(* DateSpark backend: the HTTP handlers of datespark-backend/server.cjs     *)
(* (src/unnamed/part_003), of routes/ai.cjs and of routes/profile.cjs,      *)
(* modelled as one request-processing state machine, and the               *)
(* profile-analysis page (src/src/pages/ProfileAnalysis.tsx) that posts to  *)
(* the server's /api/analyze-profile.                                       *)
(*                                                                          *)
(* Text is modelled at the level of lexemes: a model reply is a sequence of *)
(* tokens (a list marker "1. ", a newline, a brace, a JSON key, a word...). *)
(* The regular expressions and the JSON parser of the handlers are          *)
(* operators over such sequences.  Express runs one handler to its next     *)
(* await at a time; a request is followed from its arrival to its response. *)
(***************************************************************************)
EXTENDS Integers, Sequences, FiniteSets, TLC

VARIABLES
    pc,         \* position of the request in its middleware / handler chain
    req,        \* the HTTP request being served
    loc,        \* the handler's local variables
    calls,      \* model calls issued for this request, in order
    writes,     \* document-store writes attempted for this request, in order
    store,      \* documents written to the document store by this request
    resp,       \* the HTTP response (status 0: none sent yet)
    users,      \* the users collection: the profile document of each user
    apiKeyOk,   \* process.env.OPENAI_API_KEY is set and starts with "sk-"
    log,        \* what the handlers wrote with console.error for this request
    page,       \* the state of the profile-analysis page (ProfileAnalysis.tsx)
    answered,   \* the requests answered before this one: route, user, status
    form,       \* the state of the forgot-password form (ForgotPassword.tsx)
    uploader    \* the state of the image uploader (ImageUploader.tsx)

vars ==
    <<pc, req, loc, calls, writes, store, resp, users, apiKeyOk, log, page,
      answered, form, uploader>>

\* what no handler of a request touches
elsewhere == <<answered, form, uploader>>

(***************************************************************************)
(* Bounds                                                                   *)
(***************************************************************************)
MaxPhotos == 2      \* photos (files or imageUrls) per analyze-profile request
MaxReplyLen == 4    \* tokens of a generated per-photo reply (ExtractSpec)
MaxNoise == 1       \* tokens of text before and after a JSON body (ExtractSpec)

(***************************************************************************)
(* Lexemes                                                                  *)
(***************************************************************************)
NUM == "1. "            \* a digit, a dot and white space: matches /\d\.\s+/
NL == "\n"
FENCE_OPEN == "'''json\n"       \* the opening of a fenced json block
FENCE_CLOSE == "\n'''"          \* a newline and the closing fence
LBRACE == "{"
RBRACE == "}"
COMMA == ","
NullContent == <<"<null>">>     \* message.content is null (no text at all)

WhiteSpace == {NL, " "}

\* String.prototype.trim on a token sequence
RECURSIVE TrimLeft(_)
TrimLeft(s) ==
    IF s # <<>> /\ Head(s) \in WhiteSpace THEN TrimLeft(Tail(s)) ELSE s

RECURSIVE TrimRight(_)
TrimRight(s) ==
    IF s # <<>> /\ s[Len(s)] \in WhiteSpace
    THEN TrimRight(SubSeq(s, 1, Len(s) - 1))
    ELSE s

Trim(s) == TrimRight(TrimLeft(s))

\* The words of the model that begin with the given literal
WordsStartingWith(lit) ==
    CASE lit = "Good" -> {"Good", "Good,", "Goodish"}
      [] lit = "Okay" -> {"Okay", "Okay,"}
      [] OTHER -> {lit}

\* String.prototype.startsWith(lit) on a token sequence
StartsWith(s, lit) == s # <<>> /\ Head(s) \in WordsStartingWith(lit)

\* String.prototype.split(sep) for a one-token separator: the pieces between
\* the occurrences of the separator (k occurrences give k + 1 pieces)
RECURSIVE SplitOn(_, _, _)
SplitOn(s, sep, cur) ==
    IF s = <<>> THEN <<cur>>
    ELSE IF Head(s) = sep THEN <<cur>> \o SplitOn(Tail(s), sep, <<>>)
    ELSE SplitOn(Tail(s), sep, Append(cur, Head(s)))

\* response.split(/\d\.\s+/)
SplitNumbered(s) == SplitOn(s, NUM, <<>>)

(***************************************************************************)
(* JSON.parse over lexemes.  A JSON value is encoded as the set of its      *)
(* <<path, scalar>> leaves; an empty object at a path is the leaf "{}".     *)
(* A pair token is a key with a scalar value; a key token is a key whose    *)
(* value (an object or a scalar) follows.                                   *)
(***************************************************************************)
PAIR_SCORE == "\"overallScore\":7.5"
PAIR_SCORE8 == "\"overallScore\":8"
PAIR_STRENGTHS == "\"strengths\":[\"Good lighting\"]"
KEY_IMPRESSION == "\"firstImpression\":"
PROSE == "Here you go:"

PairTokens == {PAIR_SCORE, PAIR_SCORE8, PAIR_STRENGTHS}
KeyTokens == {KEY_IMPRESSION}
ScalarTokens == {"8", "null", "\"right\""}

PairKey(t) == IF t = PAIR_STRENGTHS THEN "strengths" ELSE "overallScore"
PairVal(t) ==
    CASE t = PAIR_SCORE -> "7.5"
      [] t = PAIR_SCORE8 -> "8"
      [] OTHER -> "[\"Good lighting\"]"
KeyOf(t) == "firstImpression"

ParseFail == [ok |-> FALSE, next |-> 0, val |-> {}]

IsPrefix(p, q) == Len(p) <= Len(q) /\ SubSeq(q, 1, Len(p)) = p

\* obj[key] = val: a repeated key replaces the earlier member
PutMember(acc, keyPath, val) ==
    {e \in acc : ~IsPrefix(keyPath, e[1])} \cup val

RECURSIVE ParseObject(_, _, _)
RECURSIVE ParseMembers(_, _, _, _)
RECURSIVE AfterMember(_, _, _, _)

ParseValueAt(s, i, path) ==
    IF i > Len(s) THEN ParseFail
    ELSE IF s[i] \in ScalarTokens
         THEN [ok |-> TRUE, next |-> i + 1, val |-> {<<path, s[i]>>}]
    ELSE IF s[i] = LBRACE THEN ParseObject(s, i, path)
    ELSE ParseFail

ParseObject(s, i, path) ==
    IF i + 1 > Len(s) THEN ParseFail
    ELSE IF s[i + 1] = RBRACE
         THEN [ok |-> TRUE, next |-> i + 2, val |-> {<<path, "{}">>}]
    ELSE ParseMembers(s, i + 1, path, {})

ParseMembers(s, j, path, acc) ==
    IF j > Len(s) THEN ParseFail
    ELSE IF s[j] \in PairTokens
         THEN LET kp == Append(path, PairKey(s[j]))
              IN  AfterMember(s, j + 1, path,
                              PutMember(acc, kp, {<<kp, PairVal(s[j])>>}))
    ELSE IF s[j] \in KeyTokens
         THEN LET kp == Append(path, KeyOf(s[j]))
                  r == ParseValueAt(s, j + 1, kp)
              IN  IF r.ok
                  THEN AfterMember(s, r.next, path, PutMember(acc, kp, r.val))
                  ELSE ParseFail
    ELSE ParseFail

AfterMember(s, j, path, acc) ==
    IF j > Len(s) THEN ParseFail
    ELSE IF s[j] = COMMA THEN ParseMembers(s, j + 1, path, acc)
    ELSE IF s[j] = RBRACE THEN [ok |-> TRUE, next |-> j + 1, val |-> acc]
    ELSE ParseFail

\* JSON.parse(text): ok = FALSE stands for the SyntaxError it throws
JSONparse(text) ==
    LET t == SelectSeq(text, LAMBDA x : x \notin WhiteSpace)
        r == ParseValueAt(t, 1, <<>>)
    IN  IF r.ok /\ r.next = Len(t) + 1
        THEN [ok |-> TRUE, val |-> r.val]
        ELSE [ok |-> FALSE, val |-> {}]

\* the members of a parsed value that is an object (a scalar has none)
FieldsOf(val) == {e \in val : e[1] # <<>>}

(***************************************************************************)
(* routes/ai.cjs, /analyze-profile: recovering the result from the reply    *)
(***************************************************************************)
Positions(s, tok) == {i \in 1..Len(s) : s[i] = tok}
Min(S) == CHOOSE x \in S : \A y \in S : x <= y
Max(S) == CHOOSE x \in S : \A y \in S : x >= y

NoMatch == [found |-> FALSE, whole |-> <<>>, group |-> <<>>]

\* responseText.match of the fenced-json pattern (opening fence, lazy body,
\* closing fence): the first opening fence that has a closing fence after
\* it, up to the nearest closing fence
FenceMatch(s) ==
    LET opens == {i \in Positions(s, FENCE_OPEN) :
                     \E j \in Positions(s, FENCE_CLOSE) : j > i}
    IN  IF opens = {} THEN NoMatch
        ELSE LET i == Min(opens)
                 j == Min({k \in Positions(s, FENCE_CLOSE) : k > i})
             IN  [found |-> TRUE, whole |-> SubSeq(s, i, j),
                  group |-> SubSeq(s, i + 1, j - 1)]

\* variant of the brace pattern: lazy, up to the first closing brace
BraceMatchLazy(s) ==
    LET os == Positions(s, LBRACE)
        cs == Positions(s, RBRACE)
    IN  IF os = {} \/ cs = {} \/ Max(cs) < Min(os) THEN NoMatch
        ELSE [found |-> TRUE,
              whole |-> SubSeq(s, Min(os), Min({c \in cs : c > Min(os)})),
              group |-> <<>>]

\* responseText.match of the greedy brace pattern: from the first opening
\* brace to the last closing brace after it
BraceMatch(s) ==
    LET os == Positions(s, LBRACE)
        cs == Positions(s, RBRACE)
    IN  IF os = {} \/ cs = {} \/ Max(cs) < Min(os) THEN NoMatch
        ELSE [found |-> TRUE, whole |-> SubSeq(s, Min(os), Max(cs)),
              group |-> <<>>]

ErrorResult(text, rawKey, raw) ==
    [parsed |-> FALSE, val |-> {<<<<"error">>, text>>},
     rawKey |-> rawKey, raw |-> raw]

\* lines 182-202: the inner try / catch around match and JSON.parse
ExtractAnalysis(content) ==
    IF content = NullContent
    THEN \* responseText.match throws a TypeError, caught by the inner catch
         ErrorResult("Error parsing analysis result", "message", content)
    ELSE LET fm == FenceMatch(content)
             bm == BraceMatch(content)
             jsonMatch == IF fm.found THEN fm ELSE bm
             jsonStr == IF jsonMatch.group # <<>> THEN jsonMatch.group
                        ELSE jsonMatch.whole
             p == JSONparse(jsonStr)
         IN  IF ~jsonMatch.found
             THEN ErrorResult("Could not parse AI response", "rawResponse",
                              content)
             ELSE IF p.ok
             THEN [parsed |-> TRUE, val |-> p.val, rawKey |-> "",
                   raw |-> <<>>]
             ELSE ErrorResult("Error parsing analysis result", "message",
                              content)

(***************************************************************************)
(* server.cjs, /api/analyze-profile: one entry of analyses per photo        *)
(***************************************************************************)
\* variant of the classification: equality instead of startsWith
ClassifyExact(verdict) ==
    IF verdict = <<"Good">> THEN "Good"
    ELSE IF verdict = <<"Okay">> THEN "Okay"
    ELSE "Needs Improvement"

\* lines 267-268
Classify(verdict) ==
    IF StartsWith(verdict, "Good") THEN "Good"
    ELSE IF StartsWith(verdict, "Okay") THEN "Okay"
    ELSE "Needs Improvement"

\* lines 273-277
ParseFallbackEntry ==
    [description |-> <<"Unable to analyze image properly">>,
     verdict |-> "Needs Improvement",
     suggestion |-> <<"Please upload a clearer photo with better lighting">>]

\* lines 281-285
CallErrorEntry ==
    [description |-> <<"Error analyzing this image">>,
     verdict |-> "Needs Improvement",
     suggestion |-> <<"There was an error analyzing this image. Please try a different photo.">>]

\* lines 258-278: the entry pushed for a reply that has text
ParsePhotoReply(response) ==
    LET sections == SplitNumbered(response)
    IN  IF Len(sections) >= 4
        THEN [description |-> Trim(sections[2]),
              verdict |-> Classify(Trim(sections[3])),
              suggestion |-> Trim(sections[4])]
        ELSE ParseFallbackEntry

\* lines 237-286: the entry pushed for the outcome of one per-photo call
\* (a failed call and a reply without text both end in the catch)
PhotoEntry(outcome) ==
    IF ~outcome.ok \/ outcome.content = NullContent
    THEN CallErrorEntry
    ELSE ParsePhotoReply(outcome.content)

(***************************************************************************)
(* server.cjs: messages, follow-ups and tips recovered from a reply         *)
(* (part_003 lines 537-572 and, identically, 708-742)                       *)
(***************************************************************************)
MSG_HEAD == "Messages:"
FOLLOW_HEAD == "Follow-up messages:"
TIP_HEAD == "Tips:"
ASK_TIP == "Ask for a travel tip"   \* an item text that mentions a tip
MSG_TIP == "Keep your message short"   \* an item text that mentions a message
FOLLOW_ITEM == "Save it for a follow-up"   \* an item text with 'follow-up'

\* token.toLowerCase().includes(keyword)
Mentions(tok, keyword) ==
    CASE keyword = "message" -> tok \in {MSG_HEAD, FOLLOW_HEAD, MSG_TIP}
      [] keyword = "follow-up" -> tok \in {FOLLOW_HEAD, FOLLOW_ITEM}
      [] keyword = "tip" -> tok \in {TIP_HEAD, ASK_TIP}
      [] OTHER -> FALSE

\* section.toLowerCase().includes(keyword)
Includes(section, keyword) ==
    \E i \in 1..Len(section) : Mentions(section[i], keyword)

RECURSIVE DropNewlines(_)
DropNewlines(s) ==
    IF s # <<>> /\ Head(s) = NL THEN DropNewlines(Tail(s)) ELSE s

\* response.split(/\n\n+/): the pieces between runs of two or more newlines
RECURSIVE SplitSections(_, _)
SplitSections(s, cur) ==
    IF s = <<>> THEN <<cur>>
    ELSE IF Len(s) >= 2 /\ s[1] = NL /\ s[2] = NL
         THEN <<cur>> \o SplitSections(DropNewlines(s), <<>>)
    ELSE SplitSections(Tail(s), Append(cur, Head(s)))

\* messageRegex.test(line): a list marker at the start and text after it
IsNumberedLine(line) == Len(line) >= 2 /\ line[1] = NUM

\* section.split('\n').filter(test).map(line => line.match(...)[1].trim())
NumberedLines(section) ==
    LET lines == SelectSeq(SplitOn(section, NL, <<>>), IsNumberedLine)
    IN  [i \in 1..Len(lines) |-> Trim(Tail(lines[i]))]

\* response.match(/\d+\.\s+([^\n]+)/g), each item without its marker: a
\* marker, white space (newlines too), then the rest of that line
RECURSIVE AllNumberedItems(_)
AllNumberedItems(s) ==
    IF s = <<>> THEN <<>>
    ELSE IF Head(s) # NUM THEN AllNumberedItems(Tail(s))
    ELSE LET rest == TrimLeft(Tail(s))
             stop == IF Positions(rest, NL) = {} THEN Len(rest) + 1
                     ELSE Min(Positions(rest, NL))
         IN  IF rest = <<>> THEN <<>>
             ELSE <<Trim(SubSeq(rest, 1, stop - 1))>>
                  \o AllNumberedItems(SubSeq(rest, stop, Len(rest)))

NoStarters == [messages |-> <<>>, followUps |-> <<>>, tips |-> <<>>]

\* lines 547-558: each section assigns the category its keywords select
RECURSIVE ClassifySections(_, _)
ClassifySections(sections, acc) ==
    IF sections = <<>> THEN acc
    ELSE LET section == Head(sections)
             items == NumberedLines(section)
             next ==
                 IF Includes(section, "message") /\ ~Includes(section, "follow-up")
                 THEN [acc EXCEPT !.messages = items]
                 ELSE IF Includes(section, "follow-up")
                 THEN [acc EXCEPT !.followUps = items]
                 ELSE IF Includes(section, "tip")
                 THEN [acc EXCEPT !.tips = items]
                 ELSE acc
         IN  ClassifySections(Tail(sections), next)

\* lines 560-572: with no messages found, the numbered items of the whole
\* reply are dealt out three by three
NumberedFallback(response, found) ==
    LET all == AllNumberedItems(response)
    IN  IF found.messages # <<>> \/ Len(all) < 3 THEN found
        ELSE [messages |-> SubSeq(all, 1, 3),
              followUps |-> IF Len(all) >= 6 THEN SubSeq(all, 4, 6)
                            ELSE found.followUps,
              tips |-> IF Len(all) >= 9 THEN SubSeq(all, 7, 9)
                       ELSE found.tips]

\* lines 537-572
ExtractStarters(response) ==
    NumberedFallback(response,
                     ClassifySections(SplitSections(response, <<>>), NoStarters))

\* lines 574-578: an empty category is answered with its placeholder
WithPlaceholders(st) ==
    [messages |-> IF Len(st.messages) > 0 THEN st.messages
                  ELSE <<<<"Hi there! I noticed you enjoy [interest]. What's your favorite part about it?">>>>,
     followUps |-> IF Len(st.followUps) > 0 THEN st.followUps
                   ELSE <<<<"What's been keeping you busy lately?">>>>,
     tips |-> IF Len(st.tips) > 0 THEN st.tips
              ELSE <<<<"Be genuine and reference specific details from their profile">>>>]

\* line 807: content.split(/\d+\.\s/).filter(Boolean).map(r => r.trim())
SplitResponses(content) ==
    LET pieces == SelectSeq(SplitNumbered(content), LAMBDA x : x # <<>>)
    IN  [i \in 1..Len(pieces) |-> Trim(pieces[i])]

Range(seq) == {seq[k] : k \in DOMAIN seq}

(***************************************************************************)
(* Requests                                                                 *)
(***************************************************************************)
SeqsUpTo(S, n) == UNION {[1..k -> S] : k \in 0..n}

Urls == {"https://img/a.jpg", "https://img/b.jpg"}
FileNames == {"1700-me.png"}
UrlLists == SeqsUpTo(Urls, MaxPhotos)
FileLists == SeqsUpTo(FileNames, MaxPhotos)

\* req.protocol://req.get('host')/uploads/file.filename
LocalUrl(f) == "http://host/uploads/1700-me.png"

\* the Authorization header: none, another scheme, an empty bearer token, a
\* token that verifyIdToken rejects, a token of user u1
AuthHeaders ==
    {"<none>", "Basic abc", "Bearer ", "Bearer forged", "Bearer valid"}

StartsWithBearer(h) == h \in {"Bearer ", "Bearer forged", "Bearer valid"}

\* authorization.split('Bearer ')[1]
BearerToken(h) ==
    CASE h = "Bearer forged" -> "forged"
      [] h = "Bearer valid" -> "valid"
      [] h = "Bearer " -> ""
      [] OTHER -> "<undefined>"

\* firebase.auth().verifyIdToken(token): the uid, or "" when it throws
VerifyIdToken(token) == IF token = "valid" THEN "u1" ELSE ""

UserIds == {"u1", "u2"}

ServerAnalyze == "POST /api/analyze-profile"
ServerBio == "POST /api/generate-bio"
ServerImprove == "POST /api/improve-prompt"
ServerStarters == "POST /api/conversation-starters"
ServerImage == "POST /api/process-image"
ServerPrompts == "POST /api/generate-prompt-responses"
RouterAnalyze == "POST /api/ai/analyze-profile"
RouterAnalyzeJson == "POST /analyze-profile (json_object)"
RouterBio == "POST /api/ai/generate-bio"
RouterSuggest == "POST /api/ai/suggest-messages"
RouterPunchup == "POST /api/ai/prompt-punchup"
ProfileGet == "GET /api/profile/:userId"
ProfilePut == "PUT /api/profile/:userId"

\* what a model call comes back with: a reply (its message content) or a
\* failure of one of the provider's kinds
ErrKinds == {"network_timeout", "provider_auth", "rate_limit", "bad_request"}

ErrMessage(kind) ==
    CASE kind = "network_timeout" -> "Request timed out."
      [] kind = "provider_auth" -> "401 Incorrect API key provided"
      [] kind = "rate_limit" -> "429 Rate limit reached"
      [] OTHER -> "400 Invalid image"

Reply(content) == [ok |-> TRUE, content |-> content, err |-> ""]
Failure(kind) == [ok |-> FALSE, content |-> <<>>, err |-> kind]
Failures == {Failure(k) : k \in ErrKinds}

PhotoReplies ==
    {<<NUM, "Outdoor", "portrait", NL, NUM, "Good", NL, NUM, "Crop", "tighter">>,
     <<NUM, "Indoor", NL, NUM, "Okay,", "dim", NL, NUM, "Add", "light">>,
     <<NUM, "Group", NL, NUM, "good", NL, NUM, "Go", "solo">>,
     <<"I", "cannot", "help">>,
     <<NUM, "Unable to analyze image properly", NL, NUM, "Poor", NL,
       NUM, "Please upload a clearer photo with better lighting">>,
     <<LBRACE, PAIR_SCORE8, RBRACE>>,
     NullContent}

OverallReplies ==
    {<<NUM, "Solid", "selection", NL, NUM, "Add", "variety">>,
     <<NUM, "Solid">>,
     <<"Fine">>,
     NullContent}

AnalysisReplies ==
    {<<LBRACE, PAIR_SCORE, COMMA, PAIR_STRENGTHS, RBRACE>>,
     <<LBRACE, PAIR_SCORE8, COMMA, KEY_IMPRESSION, LBRACE, RBRACE, RBRACE, NL>>,
     <<PROSE, NL, LBRACE, PAIR_SCORE, COMMA, PAIR_STRENGTHS, RBRACE, NL,
       "Hope that helps!">>,
     <<PROSE, FENCE_OPEN, LBRACE, PAIR_SCORE8, RBRACE, FENCE_CLOSE>>,
     <<FENCE_OPEN, PROSE, FENCE_CLOSE, NL, LBRACE, PAIR_SCORE, RBRACE>>,
     <<LBRACE, PAIR_SCORE, COMMA, RBRACE>>,
     <<"I", "cannot", "help">>,
     <<>>,
     NullContent}

PhotoOutcomes == {Reply(c) : c \in PhotoReplies} \cup Failures
OverallOutcomes == {Reply(c) : c \in OverallReplies} \cup Failures
AnalysisOutcomes == {Reply(c) : c \in AnalysisReplies} \cup Failures

NoReq ==
    [ep |-> "", authorization |-> "<none>", valid |-> TRUE, files |-> <<>>,
     listKind |-> "absent", list |-> <<>>, fields |-> {}, userId |-> "",
     user |-> ""]

\* POST /api/analyze-profile: multipart files and/or body.imageUrls
ServerAnalyzeRequests ==
    {[NoReq EXCEPT !.ep = ServerAnalyze, !.authorization = h, !.valid = v,
                   !.files = f, !.listKind = k, !.list = l] :
        h \in {"<none>", "Bearer valid"}, v \in BOOLEAN, f \in FileLists,
        k \in {"absent", "array"}, l \in UrlLists}

\* POST /api/ai/analyze-profile: body.photos, bio, goals, preferences
RouterAnalyzeRequests ==
    {[NoReq EXCEPT !.ep = RouterAnalyze, !.authorization = h,
                   !.listKind = k, !.list = l, !.fields = b] :
        h \in AuthHeaders, k \in {"absent", "string", "array"},
        l \in UrlLists, b \in SUBSET {"bio", "goals"}}

\* the other AI routes: the body fields that are present and not empty
FieldRequests(ep, names) ==
    {[NoReq EXCEPT !.ep = ep, !.authorization = h, !.valid = v, !.fields = b] :
        h \in AuthHeaders, v \in BOOLEAN, b \in SUBSET names}

\* POST /api/process-image: an uploaded file and/or body.imageUrl
ServerImageRequests ==
    {[NoReq EXCEPT !.ep = ServerImage, !.authorization = h, !.valid = v,
                   !.files = f, !.fields = b] :
        h \in AuthHeaders, v \in BOOLEAN, f \in {<<>>, <<"1700-me.png">>},
        b \in SUBSET {"imageUrl"}}

\* /api/profile/:userId: the path names any user, with or without a profile
ProfileRequests ==
    {[NoReq EXCEPT !.ep = ep, !.authorization = h, !.userId = u, !.fields = b] :
        ep \in {ProfileGet, ProfilePut}, h \in AuthHeaders,
        u \in UserIds \cup {"nobody"}, b \in SUBSET {"name"}}

AllRequests ==
    ServerAnalyzeRequests \cup RouterAnalyzeRequests \cup ServerImageRequests
    \cup ProfileRequests
    \cup FieldRequests(ServerBio, {"age", "culturalContext"})
    \cup FieldRequests(ServerImprove, {"originalPrompt"})
    \cup FieldRequests(ServerStarters, {"profileAnswer"})
    \cup FieldRequests(ServerPrompts, {"prompt"})
    \cup FieldRequests(RouterBio, {"interests", "personality", "lookingFor"})
    \cup FieldRequests(RouterSuggest, {"conversationHistory", "userInterests"})
    \cup FieldRequests(RouterPunchup, {"prompt"})

HasVerifyFirebaseToken(ep) ==
    ep \in {ServerBio, ServerImprove, ServerStarters, ServerImage, ServerPrompts}
HasVerifyAuth(ep) ==
    ep \in {RouterAnalyze, RouterAnalyzeJson, RouterBio, RouterSuggest,
            RouterPunchup}
HasValidators(ep) ==
    ep \in {ServerAnalyze, ServerBio, ServerImprove, ServerStarters, ServerImage}

\* a list that is absent or not an array carries no elements; only routes
\* with express-validator checks can fail them, and improve-prompt's check
\* fails on an empty originalPrompt
WellFormed(r) ==
    /\ r.listKind # "array" => r.list = <<>>
    /\ r.files # <<>> /\ r.ep = ServerAnalyze =>
           (r.listKind = "absent" \/ Len(r.list) = 1)
    /\ ~HasValidators(r.ep) => r.valid
    /\ r.ep = ServerImprove /\ r.valid => "originalPrompt" \in r.fields
    /\ r.ep = ProfileGet => r.fields = {}

Requests == {r \in AllRequests : WellFormed(r)}

(***************************************************************************)
(* State                                                                    *)
(***************************************************************************)
NoResp == [status |-> 0, error |-> "", message |-> ""]

NoResult == [parsed |-> FALSE, val |-> {}, rawKey |-> "", raw |-> <<>>]

Loc0 ==
    [photoUrls |-> <<>>, index |-> 0, analyses |-> <<>>, overallVerdict |-> <<>>,
     overallSuggestion |-> <<>>, analysisResult |-> NoResult, docId |-> 0,
     text |-> <<>>, json |-> [ok |-> FALSE, val |-> {}],
     starters |-> NoStarters, responses |-> <<>>, imageUrl |-> "",
     profileAnalysis |-> <<>>, userDoc |-> ""]

\* console.error(label, error): one line of the server's error log
ConsoleError(lg, label, message) ==
    Append(lg, [label |-> label, message |-> message])

\* no call of analyzeProfile is running.  A running call holds the
\* selectedImages of the render it was created in, its loop index i, its
\* local results and the state of the HTTP request it awaits
NoRun == [active |-> FALSE, images |-> <<>>, i |-> 0, results |-> <<>>,
          net |-> "none"]

\* ForgotPassword.tsx lines 11-15: no toast has been shown
NoToast == [title |-> "", description |-> "", variant |-> ""]

\* ForgotPassword.tsx lines 11-14: the useState values of the mounted form;
\* submits is the number of submissions so far, seen what the form showed
\* after each reset request that the service sent or refused for want of an
\* account
Form0 ==
    [email |-> <<>>, isLoading |-> FALSE, emailSent |-> FALSE, error |-> "",
     toast |-> NoToast, submits |-> 0, seen |-> {}]

\* ImageUploader.tsx lines 23-24: the useState values of the uploader;
\* batches are the calls of validateAndUpload whose file readers have not
\* all loaded, selections the number of selections made so far
Uploader0 ==
    [isDragging |-> FALSE, previews |-> <<>>, batches |-> <<>>,
     selections |-> 0]

\* ProfileAnalysis.tsx lines 90-92: the state of the mounted page, and the
\* last toast shown
Page0 ==
    [selectedImages |-> <<>>, isAnalyzing |-> FALSE, analysisResults |-> <<>>,
     run |-> NoRun, toast |-> ""]

Init ==
    /\ pc = "idle"
    /\ req = NoReq
    /\ loc = Loc0
    /\ calls = <<>>
    /\ writes = <<>>
    /\ store = <<>>
    /\ resp = NoResp
    /\ users = [u \in UserIds |-> "profile of " \o u]
    /\ apiKeyOk \in BOOLEAN
    /\ log = <<>>
    /\ page = Page0
    /\ answered = <<>>
    /\ form = Form0
    /\ uploader = Uploader0

\* res.status(status).json({ error, message }) ends the request
Respond(status, error, message) ==
    /\ resp' = [status |-> status, error |-> error, message |-> message]
    /\ pc' = "done"

\* the first middleware of the route
FirstStep(ep) ==
    IF HasVerifyFirebaseToken(ep) THEN "verifyFirebaseToken"
    ELSE IF HasVerifyAuth(ep) THEN "verifyAuth"
    ELSE IF HasValidators(ep) THEN "validateRequest"
    ELSE "handler"

Receive ==
    /\ pc = "idle"
    /\ \E r \in Requests :
          /\ req' = r
          /\ pc' = FirstStep(r.ep)
    /\ UNCHANGED <<loc, calls, writes, store, resp, users, apiKeyOk, log, page, elsewhere>>

\* part_003 lines 141-163
verifyFirebaseToken ==
    /\ pc = "verifyFirebaseToken"
    /\ LET authHeader == req.authorization
           uid == VerifyIdToken(BearerToken(authHeader))
       IN  IF authHeader = "<none>" \/ ~StartsWithBearer(authHeader)
           THEN Respond(401, "Unauthorized", "") /\ UNCHANGED <<req, log>>
           ELSE IF uid = ""
           THEN /\ Respond(401, "Unauthorized", "")
                /\ log' = ConsoleError(log, "Error verifying token:",
                                       "auth/argument-error")
                /\ UNCHANGED req
           ELSE /\ req' = [req EXCEPT !.user = uid]
                /\ pc' = IF HasValidators(req.ep) THEN "validateRequest"
                         ELSE "handler"
                /\ UNCHANGED <<resp, log>>
    /\ UNCHANGED <<loc, calls, writes, store, users, apiKeyOk, page, elsewhere>>

\* ai.cjs lines 47-61
verifyAuth ==
    /\ pc = "verifyAuth"
    /\ LET idToken == BearerToken(req.authorization)
           uid == VerifyIdToken(idToken)
       IN  IF idToken \in {"<undefined>", ""}
           THEN Respond(401, "No token provided", "") /\ UNCHANGED <<req, log>>
           ELSE IF uid = ""
           THEN /\ Respond(401, "Unauthorized", "")
                /\ log' = ConsoleError(log, "Authentication error:",
                                       "auth/argument-error")
                /\ UNCHANGED req
           ELSE /\ req' = [req EXCEPT !.user = uid]
                /\ pc' = "handler"
                /\ UNCHANGED <<resp, log>>
    /\ UNCHANGED <<loc, calls, writes, store, users, apiKeyOk, page, elsewhere>>

\* part_003 lines 131-137
validateRequest ==
    /\ pc = "validateRequest"
    /\ IF ~req.valid
       THEN Respond(400, "errors", "")
       ELSE pc' = "handler" /\ UNCHANGED resp
    /\ UNCHANGED <<req, loc, calls, writes, store, users, apiKeyOk, log, page, elsewhere>>

(***************************************************************************)
(* server.cjs: POST /api/analyze-profile (part_003 lines 178-339)           *)
(***************************************************************************)
\* a chat.completions.create call: what it is for, the image references it
\* carries and the photo count its prompt states
\* variant of the thrown error's message: the same text for every error
ThrownGeneric(outcome) == "Error"

\* the message of the error thrown on a failed call, or on reading a
\* completion that has no text
Thrown(outcome) ==
    IF ~outcome.ok THEN ErrMessage(outcome.err) ELSE "TypeError"

\* a catch block that logs the error of a failed call or of a missing text
LogIfThrown(lg, label, outcome) ==
    IF ~outcome.ok \/ outcome.content = NullContent
    THEN ConsoleError(lg, label, Thrown(outcome))
    ELSE lg

Pending == [ok |-> FALSE, content |-> <<>>, err |-> "pending"]

ModelCall(kind, images, count) ==
    [kind |-> kind, images |-> images, count |-> count, outcome |-> Pending]

\* the call in flight comes back with the outcome
Returned(cs, outcome) == [cs EXCEPT ![Len(cs)].outcome = outcome]

\* lines 206-217
PhotoUrlsOf(r) ==
    IF r.files # <<>> THEN [i \in 1..Len(r.files) |-> LocalUrl(r.files[i])]
    ELSE IF r.listKind = "array" /\ r.list # <<>> THEN r.list
    ELSE <<>>

\* lines 222-252: the call for photo number index of photoUrls
PhotoCall(photoUrls, index) ==
    ModelCall("photo", <<photoUrls[index]>>, Len(photoUrls))

\* lines 186-252: the handler up to its first await
AnalyzeProfileStart ==
    /\ pc = "handler"
    /\ req.ep = ServerAnalyze
    /\ IF ~apiKeyOk
       THEN /\ Respond(500, "Server configuration error: Missing or invalid API key", "")
            /\ log' = ConsoleError(log, "Invalid OpenAI API key format or missing key", "")
            /\ UNCHANGED <<loc, calls>>
       ELSE IF req.files = <<>> /\ (req.listKind # "array" \/ req.list = <<>>)
       THEN /\ Respond(400, "No photos uploaded", "")
            /\ UNCHANGED <<loc, calls, log>>
       ELSE LET photoUrls == PhotoUrlsOf(req)
            IN  /\ loc' = [loc EXCEPT !.photoUrls = photoUrls,
                                      !.analyses = <<>>, !.index = 1]
                /\ calls' = Append(calls, PhotoCall(photoUrls, 1))
                /\ pc' = "photo_wait"
                /\ UNCHANGED <<resp, log>>
    /\ UNCHANGED <<req, writes, store, users, apiKeyOk, page, elsewhere>>

\* lines 289-311: the call for the overall verdict
OverallCall(photoUrls) == ModelCall("overall", <<>>, Len(photoUrls))

\* variant of the guard of the overall call: some photo was analysed
HasParsedAnalyses(analyses) ==
    \E k \in DOMAIN analyses : analyses[k] # CallErrorEntry

\* line 291: if (analyses.length > 0)
HasAnalyses(analyses) == Len(analyses) > 0

\* variant of the loop body: a failed call pushes no entry
PushEntryOfReply(analyses, outcome) ==
    IF outcome.ok THEN Append(analyses, PhotoEntry(outcome)) ELSE analyses

\* lines 254-286: the entry of the returned call is pushed
PushEntry(analyses, outcome) == Append(analyses, PhotoEntry(outcome))

\* lines 254-311: a per-photo call returns or fails; its entry is pushed and
\* the loop goes on to the next photo, or to the overall call
AnalyzePhotoReturnFrom(outcomes) ==
    /\ pc = "photo_wait"
    /\ \E outcome \in outcomes :
          /\ log' = LogIfThrown(log, "OpenAI API error:", outcome)
          /\ LET analyses == PushEntry(loc.analyses, outcome)
                 index == loc.index + 1
             IN  IF index <= Len(loc.photoUrls)
                 THEN /\ loc' = [loc EXCEPT !.analyses = analyses,
                                            !.index = index]
                      /\ calls' = Append(Returned(calls, outcome),
                                         PhotoCall(loc.photoUrls, index))
                      /\ pc' = "photo_wait"
                      /\ UNCHANGED resp
                 ELSE /\ loc' = [loc EXCEPT
                                   !.analyses = analyses,
                                   !.index = index,
                                   !.overallVerdict = <<"Review your photo selection">>,
                                   !.overallSuggestion = <<"Consider adding more diverse photos">>]
                      /\ IF HasAnalyses(analyses)
                         THEN /\ calls' = Append(Returned(calls, outcome),
                                                 OverallCall(loc.photoUrls))
                              /\ pc' = "overall_wait"
                              /\ UNCHANGED resp
                         ELSE /\ Respond(200, "", "")
                              /\ calls' = Returned(calls, outcome)
    /\ UNCHANGED <<req, writes, store, users, apiKeyOk, page, elsewhere>>

AnalyzePhotoReturn == AnalyzePhotoReturnFrom(PhotoOutcomes)

\* lines 313-322: the overall verdict and suggestion of a reply that has text
OverallOf(l, response) ==
    LET overallSections == SplitNumbered(response)
    IN  [l EXCEPT
           !.overallVerdict =
               IF Len(overallSections) > 1 THEN Trim(overallSections[2]) ELSE @,
           !.overallSuggestion =
               IF Len(overallSections) > 2 THEN Trim(overallSections[3]) ELSE @]

\* lines 313-333: the overall call returns or fails (the defaults stay), and
\* the response is sent
AnalyzeOverallReturnFrom(outcomes) ==
    /\ pc = "overall_wait"
    /\ \E outcome \in outcomes :
          /\ loc' = IF ~outcome.ok \/ outcome.content = NullContent
                    THEN loc
                    ELSE OverallOf(loc, outcome.content)
          /\ calls' = Returned(calls, outcome)
          /\ log' = LogIfThrown(log, "Error generating overall assessment:",
                                outcome)
    /\ Respond(200, "", "")
    /\ UNCHANGED <<req, writes, store, users, apiKeyOk, page, elsewhere>>

AnalyzeOverallReturn == AnalyzeOverallReturnFrom(OverallOutcomes)

\* lines 329-333: the body of the success response
AnalyzeBody(l) ==
    [analyses |-> l.analyses, overallVerdict |-> l.overallVerdict,
     overallSuggestion |-> l.overallSuggestion]

(***************************************************************************)
(* routes/ai.cjs: POST /analyze-profile (lines 105-223)                     *)
(***************************************************************************)
\* variant of the analysis call: only the first photo is attached
AnalysisCallFirstPhoto(photos) ==
    [kind |-> "analysis", images |-> <<photos[1]>>, count |-> Len(photos),
     parts |-> <<"text", photos[1]>>, outcome |-> Pending]

\* lines 119-177: the prompt states photos.length; the user message holds
\* the text part followed by one image part per photo
AnalysisCall(photos) ==
    [kind |-> "analysis", images |-> photos, count |-> Len(photos),
     parts |-> <<"text">> \o [i \in 1..Len(photos) |-> photos[i]],
     outcome |-> Pending]

\* lines 107-177
RouterAnalyzeStart ==
    /\ pc = "handler"
    /\ req.ep = RouterAnalyze
    /\ IF req.listKind # "array" \/ Len(req.list) = 0
       THEN /\ Respond(400, "No photos provided for analysis", "")
            /\ UNCHANGED calls
       ELSE /\ calls' = Append(calls, AnalysisCall(req.list))
            /\ pc' = "analysis_wait"
            /\ UNCHANGED resp
    /\ UNCHANGED <<req, loc, writes, store, users, apiKeyOk, log, page, elsewhere>>

\* lines 204-211: the document added to profile_analyses
AnalysisDoc(uid, analysisResult, photos) ==
    [collection |-> "profile_analyses", userId |-> uid,
     result |-> analysisResult, timestamp |-> "serverTimestamp",
     photoCount |-> Len(photos)]

\* lines 179-211 and 219-222: the call returns and the reply is parsed and
\* handed to the store, or the call fails and the outer catch answers
RouterAnalyzeReturnFrom(outcomes) ==
    /\ pc = "analysis_wait"
    /\ \E outcome \in outcomes :
          /\ IF ~outcome.ok
             THEN /\ Respond(500, "Failed to analyze profile", ErrMessage(outcome.err))
                  /\ UNCHANGED <<loc, writes>>
             ELSE LET analysisResult == ExtractAnalysis(outcome.content)
                  IN  /\ loc' = [loc EXCEPT !.analysisResult = analysisResult]
                      /\ writes' = Append(writes,
                                      AnalysisDoc(req.user, analysisResult, req.list))
                      /\ pc' = "analysis_store"
                      /\ UNCHANGED resp
          /\ calls' = Returned(calls, outcome)
          /\ log' = IF ~outcome.ok
                    THEN ConsoleError(log, "Error analyzing profile:",
                                      Thrown(outcome))
                    ELSE IF ~ExtractAnalysis(outcome.content).parsed
                            /\ ExtractAnalysis(outcome.content).rawKey = "message"
                    THEN ConsoleError(log, "Error parsing OpenAI response:",
                                      IF outcome.content = NullContent
                                      THEN "TypeError" ELSE "SyntaxError")
                    ELSE log
    /\ UNCHANGED <<req, store, users, apiKeyOk, page, elsewhere>>

RouterAnalyzeReturn == RouterAnalyzeReturnFrom(AnalysisOutcomes)

\* the identifier the store gives to the n-th document
DocId(n) == n

\* lines 206-222: the write succeeds and the result is returned with the
\* document id, or it fails and the outer catch answers
RouterAnalyzeStored ==
    /\ pc = "analysis_store"
    /\ \/ /\ store' = Append(store, writes[Len(writes)])
          /\ loc' = [loc EXCEPT !.docId = DocId(Len(store) + 1)]
          /\ Respond(200, "", "")
          /\ UNCHANGED log
       \/ /\ Respond(500, "Failed to analyze profile", "store unavailable")
          /\ log' = ConsoleError(log, "Error analyzing profile:",
                                 "store unavailable")
          /\ UNCHANGED <<store, loc>>
    /\ UNCHANGED <<req, calls, writes, users, apiKeyOk, page, elsewhere>>

\* lines 214-217: the body of the success response, the document id and
\* the members of analysisResult (no key of the modelled replies is "id")
RouterAnalyzeBody(l) ==
    [id |-> l.docId, members |-> FieldsOf(l.analysisResult.val),
     rawKey |-> l.analysisResult.rawKey, raw |-> l.analysisResult.raw]

(***************************************************************************)
(* server.cjs: the text endpoints                                           *)
(***************************************************************************)
TextReplies == {<<"Curious", "engineer", NL>>, <<>>, NullContent}
TextOutcomes == {Reply(c) : c \in TextReplies} \cup Failures

\* variant of the content check: only a body without any field is empty
NoBioFieldsAtAll(r) == r.fields = {}

\* line 361: !age && !job && !interests && !personality && !lookingFor
NoBioFields(r) ==
    r.fields \cap {"age", "job", "interests", "personality", "lookingFor"} = {}

\* POST /api/generate-bio, part_003 lines 358-393
GenerateBioStart ==
    /\ pc = "handler"
    /\ req.ep = ServerBio
    /\ IF NoBioFields(req)
       THEN Respond(400, "At least one field is required", "") /\ UNCHANGED calls
       ELSE /\ calls' = Append(calls, ModelCall("bio", <<>>, 0))
            /\ pc' = "bio_wait"
            /\ UNCHANGED resp
    /\ UNCHANGED <<req, loc, writes, store, users, apiKeyOk, log, page, elsewhere>>

\* lines 395-402: content.trim() throws on a reply without text
GenerateBioReturn ==
    /\ pc = "bio_wait"
    /\ \E outcome \in TextOutcomes :
          /\ IF ~outcome.ok \/ outcome.content = NullContent
             THEN Respond(500, "Failed to generate bio", "") /\ UNCHANGED loc
             ELSE /\ loc' = [loc EXCEPT !.text = Trim(outcome.content)]
                  /\ Respond(200, "", "")
          /\ calls' = Returned(calls, outcome)
          /\ log' = LogIfThrown(log, "Error generating bio:", outcome)
    /\ UNCHANGED <<req, writes, store, users, apiKeyOk, page, elsewhere>>

\* POST /api/improve-prompt, lines 418-451
ImprovePromptStart ==
    /\ pc = "handler"
    /\ req.ep = ServerImprove
    /\ IF "originalPrompt" \notin req.fields
       THEN Respond(400, "Original prompt is required", "") /\ UNCHANGED calls
       ELSE /\ calls' = Append(calls, ModelCall("improve", <<>>, 0))
            /\ pc' = "improve_wait"
            /\ UNCHANGED resp
    /\ UNCHANGED <<req, loc, writes, store, users, apiKeyOk, log, page, elsewhere>>

\* lines 453-460
ImprovePromptReturn ==
    /\ pc = "improve_wait"
    /\ \E outcome \in TextOutcomes :
          /\ IF ~outcome.ok \/ outcome.content = NullContent
             THEN Respond(500, "Failed to improve prompt", "") /\ UNCHANGED loc
             ELSE /\ loc' = [loc EXCEPT !.text = Trim(outcome.content)]
                  /\ Respond(200, "", "")
          /\ calls' = Returned(calls, outcome)
          /\ log' = LogIfThrown(log, "Error improving prompt:", outcome)
    /\ UNCHANGED <<req, writes, store, users, apiKeyOk, page, elsewhere>>

\* POST /api/generate-prompt-responses, lines 780-801
PromptResponsesStart ==
    /\ pc = "handler"
    /\ req.ep = ServerPrompts
    /\ IF "prompt" \notin req.fields
       THEN Respond(400, "Prompt is required", "") /\ UNCHANGED calls
       ELSE /\ calls' = Append(calls, ModelCall("prompt-responses", <<>>, 0))
            /\ pc' = "responses_wait"
            /\ UNCHANGED resp
    /\ UNCHANGED <<req, loc, writes, store, users, apiKeyOk, log, page, elsewhere>>

ResponsesReplies ==
    {<<NUM, "Pineapple", "belongs", NL, NUM, "Ask", "me", NL, NUM, "Tacos">>,
     <<"Sure!">>, NullContent}
ResponsesOutcomes == {Reply(c) : c \in ResponsesReplies} \cup Failures

\* lines 803-813: content.split throws on a reply without text
PromptResponsesReturn ==
    /\ pc = "responses_wait"
    /\ \E outcome \in ResponsesOutcomes :
          /\ IF ~outcome.ok \/ outcome.content = NullContent
             THEN /\ Respond(500, "Failed to generate prompt responses", "")
                  /\ UNCHANGED loc
             ELSE /\ loc' = [loc EXCEPT !.responses = SplitResponses(outcome.content)]
                  /\ Respond(200, "", "")
          /\ calls' = Returned(calls, outcome)
          /\ log' = LogIfThrown(log, "Error generating prompt responses:", outcome)
    /\ UNCHANGED <<req, writes, store, users, apiKeyOk, page, elsewhere>>

(***************************************************************************)
(* server.cjs: conversation starters                                        *)
(***************************************************************************)
\* the response body of a conversation-starters success, lines 574-578
StartersBody(st) == WithPlaceholders(st)

\* the results of a process-image success, lines 762-770
ImageResults(st) == st

StarterReplies ==
    {<<MSG_HEAD, NL, NUM, "m1", NL, NUM, "m2", NL, NUM, "m3", NL, NL,
       FOLLOW_HEAD, NL, NUM, "f1", NL, NL, TIP_HEAD, NL, NUM, "t1">>,
     <<NUM, "m1", NL, NUM, "m2", NL, NUM, "m3">>,
     <<MSG_HEAD, NL, NUM, "m1", NL, NUM, "m2", NL, NUM, "m3", NL, NUM, "m4">>,
     <<TIP_HEAD, NL, NUM, ASK_TIP>>,
     <<"Sorry,", "no">>,
     NullContent}
StarterOutcomes == {Reply(c) : c \in StarterReplies} \cup Failures

\* POST /api/conversation-starters, lines 481-533
ConversationStartersStart ==
    /\ pc = "handler"
    /\ req.ep = ServerStarters
    /\ calls' = Append(calls, ModelCall("starters", <<>>, 0))
    /\ pc' = "starters_wait"
    /\ UNCHANGED <<req, loc, writes, store, resp, users, apiKeyOk, log, page, elsewhere>>

\* lines 535-583: response.split throws on a reply without text
ConversationStartersReturnFrom(outcomes) ==
    /\ pc = "starters_wait"
    /\ \E outcome \in outcomes :
          /\ IF ~outcome.ok \/ outcome.content = NullContent
             THEN /\ Respond(500, "Failed to generate conversation starters", "")
                  /\ UNCHANGED loc
             ELSE /\ loc' = [loc EXCEPT
                               !.starters = StartersBody(ExtractStarters(outcome.content))]
                  /\ Respond(200, "", "")
          /\ calls' = Returned(calls, outcome)
          /\ log' = LogIfThrown(log, "Error generating conversation starters:", outcome)
    /\ UNCHANGED <<req, writes, store, users, apiKeyOk, page, elsewhere>>

ConversationStartersReturn == ConversationStartersReturnFrom(StarterOutcomes)

\* POST /api/process-image, lines 601-670: the image is the stored upload
\* (its signed URL, or the local URL when the upload fails) or body.imageUrl
ProcessImageStart ==
    /\ pc = "handler"
    /\ req.ep = ServerImage
    /\ IF req.files = <<>> /\ "imageUrl" \notin req.fields
       THEN /\ Respond(400, "No profile image uploaded or provided", "")
            /\ UNCHANGED <<loc, calls>>
       ELSE /\ \E imageUrl \in
                   IF req.files # <<>>
                   THEN {"https://storage/signed", LocalUrl(req.files[1])}
                   ELSE {"https://img/a.jpg"} :
                  /\ loc' = [loc EXCEPT !.imageUrl = imageUrl]
                  /\ calls' = Append(calls, ModelCall("vision", <<imageUrl>>, 1))
            /\ pc' = "vision_wait"
            /\ UNCHANGED resp
    /\ UNCHANGED <<req, writes, store, users, apiKeyOk, log, page, elsewhere>>

VisionOutcomes ==
    {Reply(<<"Bio:", "hiker">>), Reply(NullContent), Failure("network_timeout")}

\* lines 672-704: the extracted profile goes into the second prompt
ProcessImageVisionReturn ==
    /\ pc = "vision_wait"
    /\ \E outcome \in VisionOutcomes :
          IF ~outcome.ok
          THEN /\ Respond(500, "Failed to process profile image", ErrMessage(outcome.err))
               /\ log' = ConsoleError(log, "Error processing profile image:",
                                      Thrown(outcome))
               /\ calls' = Returned(calls, outcome)
               /\ UNCHANGED loc
          ELSE /\ loc' = [loc EXCEPT !.profileAnalysis = outcome.content]
               /\ calls' = Append(Returned(calls, outcome),
                                  ModelCall("starters", <<>>, 0))
               /\ pc' = "image_starters_wait"
               /\ UNCHANGED <<resp, log>>
    /\ UNCHANGED <<req, writes, store, users, apiKeyOk, page, elsewhere>>

\* lines 746-757
StarterDoc(r, l, starters) ==
    [collection |-> "conversationStarters", userId |-> r.user,
     result |-> starters, timestamp |-> "new Date()", imageUrl |-> l.imageUrl]

\* lines 706-760: req.user is set on this route, so the result is saved
ProcessImageStartersReturnFrom(outcomes) ==
    /\ pc = "image_starters_wait"
    /\ \E outcome \in outcomes :
        /\ calls' = Returned(calls, outcome)
        /\ log' = LogIfThrown(log, "Error processing profile image:", outcome)
        /\ IF ~outcome.ok
            THEN /\ Respond(500, "Failed to process profile image", ErrMessage(outcome.err))
                 /\ UNCHANGED <<loc, writes>>
            ELSE IF outcome.content = NullContent
            THEN /\ Respond(500, "Failed to process profile image", "TypeError")
                 /\ UNCHANGED <<loc, writes>>
            ELSE LET starters == ImageResults(ExtractStarters(outcome.content))
                 IN  /\ loc' = [loc EXCEPT !.starters = starters]
                     /\ IF req.user # ""
                        THEN /\ writes' = Append(writes, StarterDoc(req, loc, starters))
                             /\ pc' = "image_store"
                             /\ UNCHANGED resp
                        ELSE /\ Respond(200, "", "")
                             /\ UNCHANGED writes
    /\ UNCHANGED <<req, store, users, apiKeyOk, page, elsewhere>>

ProcessImageStartersReturn == ProcessImageStartersReturnFrom(StarterOutcomes)

\* lines 759-774 and firestore.cjs saveConversationStarter: the save
\* succeeds, or it throws and the handler's catch answers
ProcessImageSaved ==
    /\ pc = "image_store"
    /\ \/ /\ store' = Append(store, writes[Len(writes)])
          /\ Respond(200, "", "")
          /\ UNCHANGED log
       \/ /\ Respond(500, "Failed to process profile image", "store unavailable")
          /\ log' = ConsoleError(
                        ConsoleError(log, "Error saving conversation starter:",
                                     "store unavailable"),
                        "Error processing profile image:", "store unavailable")
          /\ UNCHANGED store
    /\ UNCHANGED <<req, loc, calls, writes, users, apiKeyOk, page, elsewhere>>

(***************************************************************************)
(* routes/ai.cjs: /generate-bio, /suggest-messages, /prompt-punchup         *)
(***************************************************************************)
PAIR_SUGGESTIONS == "\"suggestions\":[\"Hiker\"]"
PAIR_RESPONSES == "\"responses\":[\"Tacos\"]"

JsonReplies ==
    {<<LBRACE, PAIR_SCORE, RBRACE>>,
     <<PROSE, LBRACE, PAIR_SCORE, RBRACE>>,
     <<"null">>, <<>>, NullContent}
JsonOutcomes == {Reply(c) : c \in JsonReplies} \cup Failures

\* JSON.parse(completion.choices[0].message.content): a null content is
\* converted to the text null
ParseContent(content) ==
    IF content = NullContent THEN JSONparse(<<"null">>) ELSE JSONparse(content)

\* reading a property of the parsed value throws when the value is null
IsNullValue(val) == val = {<<<<>>, "null">>}

\* lines 229-254
RouterBioStart ==
    /\ pc = "handler"
    /\ req.ep = RouterBio
    /\ IF ~({"interests", "personality", "lookingFor"} \subseteq req.fields)
       THEN Respond(400, "Missing required parameters", "") /\ UNCHANGED calls
       ELSE /\ calls' = Append(calls, ModelCall("bio", <<>>, 0))
            /\ pc' = "router_bio_wait"
            /\ UNCHANGED resp
    /\ UNCHANGED <<req, loc, writes, store, users, apiKeyOk, log, page, elsewhere>>

JsonDoc(collection, uid, val) ==
    [collection |-> collection, userId |-> uid, result |-> val,
     timestamp |-> "serverTimestamp"]

\* the reply is parsed and a property of it is handed to the store; a
\* failed call, a SyntaxError and a TypeError all end in the catch
ParseAndStore(outcomes, collection, failure, storing, label) ==
    \E outcome \in outcomes :
       LET p == IF outcome.ok THEN ParseContent(outcome.content)
                ELSE [ok |-> FALSE, val |-> {}]
       IN  /\ IF ~outcome.ok \/ ~p.ok \/ IsNullValue(p.val)
              THEN /\ Respond(500, failure, "")
                   /\ log' = ConsoleError(log, label,
                                IF ~outcome.ok THEN Thrown(outcome)
                                ELSE IF ~p.ok THEN "SyntaxError"
                                ELSE "TypeError")
                   /\ UNCHANGED <<loc, writes>>
              ELSE /\ loc' = [loc EXCEPT !.json = p]
                   /\ writes' = Append(writes, JsonDoc(collection, req.user, p.val))
                   /\ pc' = storing
                   /\ UNCHANGED <<resp, log>>
           /\ calls' = Returned(calls, outcome)

\* lines 256-270
RouterBioReturn ==
    /\ pc = "router_bio_wait"
    /\ ParseAndStore(JsonOutcomes, "bioSuggestions",
                     "Error generating bio suggestions", "router_bio_store",
                     "Bio generation error:")
    /\ UNCHANGED <<req, store, users, apiKeyOk, page, elsewhere>>

\* the awaited add succeeds, or it throws and the catch answers
StoredOrFailed(failure, label) ==
    \/ /\ store' = Append(store, writes[Len(writes)])
       /\ Respond(200, "", "")
       /\ UNCHANGED log
    \/ /\ Respond(500, failure, "")
       /\ log' = ConsoleError(log, label, "store unavailable")
       /\ UNCHANGED store

\* lines 259-270
RouterBioStored ==
    /\ pc = "router_bio_store"
    /\ StoredOrFailed("Error generating bio suggestions",
                      "Bio generation error:")
    /\ UNCHANGED <<req, loc, calls, writes, users, apiKeyOk, page, elsewhere>>

\* lines 277-304
RouterSuggestStart ==
    /\ pc = "handler"
    /\ req.ep = RouterSuggest
    /\ IF ~({"conversationHistory", "userInterests"} \subseteq req.fields)
       THEN Respond(400, "Missing required parameters", "") /\ UNCHANGED calls
       ELSE /\ calls' = Append(calls, ModelCall("suggest", <<>>, 0))
            /\ pc' = "suggest_wait"
            /\ UNCHANGED resp
    /\ UNCHANGED <<req, loc, writes, store, users, apiKeyOk, log, page, elsewhere>>

\* lines 306-312: the parsed value is the response, whatever it is
RouterSuggestReturn ==
    /\ pc = "suggest_wait"
    /\ \E outcome \in JsonOutcomes :
          /\ LET p == IF outcome.ok THEN ParseContent(outcome.content)
                      ELSE [ok |-> FALSE, val |-> {}]
             IN  IF ~p.ok
                 THEN /\ Respond(500, "Error generating message suggestions", "")
                      /\ log' = ConsoleError(log, "Message suggestion error:",
                                   IF ~outcome.ok THEN Thrown(outcome)
                                   ELSE "SyntaxError")
                      /\ UNCHANGED loc
                 ELSE /\ loc' = [loc EXCEPT !.json = p]
                      /\ Respond(200, "", "")
                      /\ UNCHANGED log
          /\ calls' = Returned(calls, outcome)
    /\ UNCHANGED <<req, writes, store, users, apiKeyOk, page, elsewhere>>

\* lines 319-351
RouterPunchupStart ==
    /\ pc = "handler"
    /\ req.ep = RouterPunchup
    /\ IF "prompt" \notin req.fields
       THEN Respond(400, "Prompt is required", "") /\ UNCHANGED calls
       ELSE /\ calls' = Append(calls, ModelCall("punchup", <<>>, 0))
            /\ pc' = "punchup_wait"
            /\ UNCHANGED resp
    /\ UNCHANGED <<req, loc, writes, store, users, apiKeyOk, log, page, elsewhere>>

\* lines 353-368
RouterPunchupReturn ==
    /\ pc = "punchup_wait"
    /\ ParseAndStore(JsonOutcomes, "promptResponses",
                     "Error generating prompt responses", "punchup_store",
                     "Prompt response generation error:")
    /\ UNCHANGED <<req, store, users, apiKeyOk, page, elsewhere>>

\* lines 356-368
RouterPunchupStored ==
    /\ pc = "punchup_store"
    /\ StoredOrFailed("Error generating prompt responses",
                      "Prompt response generation error:")
    /\ UNCHANGED <<req, loc, calls, writes, users, apiKeyOk, page, elsewhere>>

(***************************************************************************)
(* routes/profile.cjs                                                       *)
(***************************************************************************)
\* lines 6-20: the route has no middleware; the document is read and sent
GetUserProfile ==
    /\ pc = "handler"
    /\ req.ep = ProfileGet
    /\ \/ IF req.userId \notin DOMAIN users
          THEN Respond(404, "User not found", "") /\ UNCHANGED loc
          ELSE /\ loc' = [loc EXCEPT !.userDoc = users[req.userId]]
               /\ Respond(200, "", "")
       \/ Respond(500, "store unavailable", "") /\ UNCHANGED loc
    /\ UNCHANGED <<req, calls, writes, store, users, apiKeyOk, log, page, elsewhere>>

\* lines 23-41: the route has no middleware; update() rejects when the
\* document does not exist or the store fails
UpdateUserProfile ==
    /\ pc = "handler"
    /\ req.ep = ProfilePut
    /\ \/ IF req.userId \notin DOMAIN users
          THEN Respond(500, "No document to update", "") /\ UNCHANGED users
          ELSE /\ users' = [users EXCEPT ![req.userId] = "updated by request"]
               /\ Respond(200, "", "")
       \/ Respond(500, "store unavailable", "") /\ UNCHANGED users
    /\ UNCHANGED <<req, loc, calls, writes, store, apiKeyOk, log, page, elsewhere>>

(***************************************************************************)
(* Specification                                                            *)
(***************************************************************************)
Next ==
    \/ Receive
    \/ verifyFirebaseToken
    \/ verifyAuth
    \/ validateRequest
    \/ AnalyzeProfileStart
    \/ AnalyzePhotoReturn
    \/ AnalyzeOverallReturn
    \/ RouterAnalyzeStart
    \/ RouterAnalyzeReturn
    \/ RouterAnalyzeStored
    \/ GenerateBioStart
    \/ GenerateBioReturn
    \/ ImprovePromptStart
    \/ ImprovePromptReturn
    \/ PromptResponsesStart
    \/ PromptResponsesReturn
    \/ ConversationStartersStart
    \/ ConversationStartersReturn
    \/ ProcessImageStart
    \/ ProcessImageVisionReturn
    \/ ProcessImageStartersReturn
    \/ ProcessImageSaved
    \/ RouterBioStart
    \/ RouterBioReturn
    \/ RouterBioStored
    \/ RouterSuggestStart
    \/ RouterSuggestReturn
    \/ RouterPunchupStart
    \/ RouterPunchupReturn
    \/ RouterPunchupStored
    \/ GetUserProfile
    \/ UpdateUserProfile

Spec == Init /\ [][Next]_vars


(***************************************************************************)
(* Second specification: the two analysis handlers with a call in flight,   *)
(* answered by every reply of a bounded shape instead of the sample replies *)
(***************************************************************************)
\* per-photo replies: every token sequence up to MaxReplyLen
PhotoAlphabet == {NUM, NL, "Good", "Okay,", "Goodish", "good", "Verdict:"}
GeneratedPhotoReplies == SeqsUpTo(PhotoAlphabet, MaxReplyLen)
GeneratedPhotoOutcomes ==
    {Reply(c) : c \in GeneratedPhotoReplies \cup {NullContent}} \cup Failures

\* analysis replies: a JSON body (well-formed or not) with up to MaxNoise
\* tokens of other text on each side
JsonBodies ==
    {<<LBRACE, RBRACE>>,
     <<LBRACE, PAIR_SCORE, RBRACE>>,
     <<LBRACE, PAIR_SCORE, COMMA, PAIR_STRENGTHS, RBRACE>>,
     <<LBRACE, PAIR_SCORE, COMMA, PAIR_SCORE8, RBRACE>>,
     <<LBRACE, KEY_IMPRESSION, "\"right\"", RBRACE>>,
     <<LBRACE, KEY_IMPRESSION, LBRACE, RBRACE, RBRACE>>,
     <<LBRACE, KEY_IMPRESSION, LBRACE, PAIR_STRENGTHS, RBRACE, COMMA,
       PAIR_SCORE, RBRACE>>,
     <<LBRACE, PAIR_SCORE, COMMA, RBRACE>>,
     <<LBRACE, PAIR_SCORE>>,
     <<PAIR_SCORE>>,
     <<"8">>,
     <<>>}
NoiseAlphabet == {PROSE, NL, LBRACE, RBRACE, FENCE_OPEN, FENCE_CLOSE}
Noise == SeqsUpTo(NoiseAlphabet, MaxNoise)
GeneratedAnalysisReplies ==
    {before \o body \o after : before \in Noise, body \in JsonBodies,
                               after \in Noise}
GeneratedAnalysisOutcomes ==
    {Reply(c) : c \in GeneratedAnalysisReplies \cup {NullContent}}
    \cup Failures

\* an authenticated one-photo request to each analysis handler
ExtractRouterReq ==
    [NoReq EXCEPT !.ep = RouterAnalyze, !.authorization = "Bearer valid",
                  !.listKind = "array", !.list = <<"https://img/a.jpg">>,
                  !.user = "u1"]
\* the sections a starter reply is made of: blank lines separate them
MsgSection == <<MSG_HEAD, NL, NUM, "m1", NL, NUM, "m2", NL, NUM, "m3">>
StarterSections ==
    {MsgSection,
     <<FOLLOW_HEAD, NL, NUM, "f1">>,
     <<TIP_HEAD, NL, NUM, "t1">>,
     <<TIP_HEAD, NL, NUM, MSG_TIP>>,
     <<"Ideas", NL, NUM, "x1", NL, NUM, FOLLOW_ITEM>>,
     <<PROSE>>}
MaxSections == 3

RECURSIVE JoinSections(_)
JoinSections(ss) ==
    IF ss = <<>> THEN <<>>
    ELSE IF Len(ss) = 1 THEN ss[1]
    ELSE ss[1] \o <<NL, NL>> \o JoinSections(Tail(ss))

\* every reply of up to MaxSections different sections, in any order
GeneratedStarterReplies ==
    {JoinSections(ss) : ss \in
        {q \in UNION {[1..n -> StarterSections] : n \in 1..MaxSections} :
            \A i, j \in DOMAIN q : i # j => q[i] # q[j]}}
GeneratedStarterOutcomes == {Reply(c) : c \in GeneratedStarterReplies}

ExtractStartersReq ==
    [NoReq EXCEPT !.ep = ServerStarters, !.authorization = "Bearer valid"]
ExtractImageReq ==
    [NoReq EXCEPT !.ep = ServerImage, !.authorization = "Bearer valid",
                  !.fields = {"imageUrl"}, !.user = "u1"]

ExtractServerReq ==
    [NoReq EXCEPT !.ep = ServerAnalyze, !.authorization = "Bearer valid",
                  !.listKind = "array", !.list = <<"https://img/a.jpg">>]

\* the state in which the handler awaits its first model call
ExtractInit ==
    /\ writes = <<>>
    /\ store = <<>>
    /\ resp = NoResp
    /\ users = [u \in UserIds |-> "profile of " \o u]
    /\ apiKeyOk = TRUE
    /\ log = <<>>
    /\ page = Page0
    /\ answered = <<>>
    /\ form = Form0
    /\ uploader = Uploader0
    /\ \/ /\ req = ExtractRouterReq
          /\ pc = "analysis_wait"
          /\ loc = Loc0
          /\ calls = <<AnalysisCall(req.list)>>
       \/ /\ req = ExtractServerReq
          /\ pc = "photo_wait"
          /\ loc = [Loc0 EXCEPT !.photoUrls = PhotoUrlsOf(req), !.index = 1]
          /\ calls = <<PhotoCall(PhotoUrlsOf(req), 1)>>
       \/ /\ req = ExtractStartersReq
          /\ pc = "starters_wait"
          /\ loc = Loc0
          /\ calls = <<ModelCall("starters", <<>>, 0)>>
       \/ /\ req = ExtractImageReq
          /\ pc = "image_starters_wait"
          /\ loc = [Loc0 EXCEPT !.imageUrl = "https://img/a.jpg",
                                !.profileAnalysis = <<"Bio:", "hiker">>]
          /\ calls = <<[ModelCall("vision", <<"https://img/a.jpg">>, 1)
                          EXCEPT !.outcome = Reply(<<"Bio:", "hiker">>)],
                       ModelCall("starters", <<>>, 0)>>

RouterAnalyzeReturnGenerated ==
    RouterAnalyzeReturnFrom(GeneratedAnalysisOutcomes)
AnalyzePhotoReturnGenerated == AnalyzePhotoReturnFrom(GeneratedPhotoOutcomes)
ConversationStartersReturnGenerated ==
    ConversationStartersReturnFrom(GeneratedStarterOutcomes)
ProcessImageStartersReturnGenerated ==
    ProcessImageStartersReturnFrom(GeneratedStarterOutcomes)

ExtractNext ==
    \/ RouterAnalyzeReturnGenerated
    \/ RouterAnalyzeStored
    \/ AnalyzePhotoReturnGenerated
    \/ AnalyzeOverallReturn
    \/ ConversationStartersReturnGenerated
    \/ ProcessImageStartersReturnGenerated
    \/ ProcessImageSaved

ExtractSpec == ExtractInit /\ [][ExtractNext]_vars

(***************************************************************************)
(* The router of src/unnamed/part_002: POST /analyze-profile with a         *)
(* json_object reply (lines 32-126), and the analysis records that a        *)
(* sequence of analyze-profile requests leaves in the document store.       *)
(***************************************************************************)
\* lines 33-106: the body's images must be there and have a length
RouterAnalyzeJsonStart ==
    /\ pc = "handler"
    /\ req.ep = RouterAnalyzeJson
    /\ IF req.listKind = "absent" \/ Len(req.list) = 0
       THEN /\ Respond(400, "At least one image is required", "")
            /\ UNCHANGED calls
       ELSE /\ calls' = Append(calls, AnalysisCall(req.list))
            /\ pc' = "analysis_json_wait"
            /\ UNCHANGED resp
    /\ UNCHANGED <<req, loc, writes, store, users, apiKeyOk, log, page, elsewhere>>

\* lines 111-119: the document set at profileAnalyses/userId
ProfileAnalysisDoc(uid, response, images) ==
    [collection |-> "profileAnalyses", id |-> uid, userId |-> uid,
     analysis |-> response, createdAt |-> "serverTimestamp",
     images |-> images]

\* lines 108-125: JSON.parse of the reply is not guarded: a reply that does
\* not parse, like a failed call, ends in the catch
RouterAnalyzeJsonReturnFrom(outcomes) ==
    /\ pc = "analysis_json_wait"
    /\ \E outcome \in outcomes :
          LET p == IF outcome.ok THEN ParseContent(outcome.content)
                   ELSE [ok |-> FALSE, val |-> {}]
          IN  /\ IF ~p.ok
                 THEN /\ Respond(500, "Error analyzing profile", "")
                      /\ log' = ConsoleError(log, "Profile analysis error:",
                                   IF ~outcome.ok THEN Thrown(outcome)
                                   ELSE "SyntaxError")
                      /\ UNCHANGED <<loc, writes>>
                 ELSE /\ loc' = [loc EXCEPT !.json = p]
                      /\ writes' = Append(writes,
                                      ProfileAnalysisDoc(req.user, p.val, req.list))
                      /\ pc' = "analysis_json_store"
                      /\ UNCHANGED <<resp, log>>
              /\ calls' = Returned(calls, outcome)
    /\ UNCHANGED <<req, store, users, apiKeyOk, page, elsewhere>>

\* variant of set: a new document is added every time
SetDocAdds(st, document) == Append(st, document)

\* doc(id).set(document): the document with that id in the collection is
\* replaced, or the document is created
SetDoc(st, document) ==
    LET same == {n \in DOMAIN st :
                    /\ st[n].collection = document.collection
                    /\ "id" \in DOMAIN st[n]
                    /\ st[n].id = document.id}
    IN  IF same = {} THEN Append(st, document)
        ELSE [n \in DOMAIN st |-> IF n \in same THEN document ELSE st[n]]

\* lines 111-125: the set succeeds and the parsed reply is returned, or it
\* fails and the catch answers
RouterAnalyzeJsonStored ==
    /\ pc = "analysis_json_store"
    /\ \/ /\ store' = SetDoc(store, writes[Len(writes)])
          /\ Respond(200, "", "")
          /\ UNCHANGED log
       \/ /\ Respond(500, "Error analyzing profile", "")
          /\ log' = ConsoleError(log, "Profile analysis error:",
                                 "store unavailable")
          /\ UNCHANGED store
    /\ UNCHANGED <<req, loc, calls, writes, users, apiKeyOk, page, elsewhere>>

MaxRequests == 2    \* requests served one after another

StoreReplies ==
    {<<LBRACE, PAIR_SCORE, RBRACE>>, <<LBRACE, PAIR_SCORE8, RBRACE>>,
     <<"I", "cannot", "help">>}
StoreOutcomes == {Reply(c) : c \in StoreReplies} \cup {Failure("rate_limit")}

AnalyzeRoutes == {RouterAnalyze, RouterAnalyzeJson}

\* authenticated analyze-profile requests to either router
StoreRequests ==
    {[NoReq EXCEPT !.ep = ep, !.authorization = "Bearer valid",
                   !.listKind = k, !.list = l] :
        ep \in AnalyzeRoutes, k \in {"absent", "array"},
        l \in {<<>>, <<"https://img/a.jpg">>}}

StoreInit ==
    /\ pc = "idle"
    /\ req = NoReq
    /\ loc = Loc0
    /\ calls = <<>>
    /\ writes = <<>>
    /\ store = <<>>
    /\ resp = NoResp
    /\ users = [u \in UserIds |-> "profile of " \o u]
    /\ apiKeyOk = TRUE
    /\ log = <<>>
    /\ page = Page0
    /\ answered = <<>>
    /\ form = Form0
    /\ uploader = Uploader0

\* the next request arrives once the one before it has been answered
StoreReceive ==
    /\ pc = "idle"
    /\ Len(answered) < MaxRequests
    /\ \E r \in StoreRequests :
          /\ req' = r
          /\ pc' = FirstStep(r.ep)
    /\ UNCHANGED <<loc, calls, writes, store, resp, users, apiKeyOk, log, page, elsewhere>>

\* the request is over: its response is on record and the server is free;
\* the documents in the store stay
RequestEnds ==
    /\ pc = "done"
    /\ answered' = Append(answered, [ep |-> req.ep, user |-> req.user,
                                      status |-> resp.status])
    /\ pc' = "idle"
    /\ req' = NoReq
    /\ loc' = Loc0
    /\ calls' = <<>>
    /\ writes' = <<>>
    /\ resp' = NoResp
    /\ log' = <<>>
    /\ UNCHANGED <<store, users, apiKeyOk, page, form, uploader>>

RouterAnalyzeReturnStore == RouterAnalyzeReturnFrom(StoreOutcomes)
RouterAnalyzeJsonReturnStore == RouterAnalyzeJsonReturnFrom(StoreOutcomes)

StoreNext ==
    \/ StoreReceive
    \/ verifyAuth
    \/ RouterAnalyzeStart
    \/ RouterAnalyzeReturnStore
    \/ RouterAnalyzeStored
    \/ RouterAnalyzeJsonStart
    \/ RouterAnalyzeJsonReturnStore
    \/ RouterAnalyzeJsonStored
    \/ RequestEnds

StoreSpec == StoreInit /\ [][StoreNext]_vars

(***************************************************************************)
(* The profile-analysis page (src/src/pages/ProfileAnalysis.tsx) and the    *)
(* result card (src/src/components/ProfileAnalysisResult.tsx).  The page    *)
(* posts one image at a time to the server's /api/analyze-profile; the      *)
(* request it awaits is sent, then delivered to the server, then answered.  *)
(* A call of analyzeProfile runs to its next await in one step.             *)
(***************************************************************************)
MaxImages == 2      \* images the user selects at once

ImageFiles == {"me.png", "dog.png"}
ImageLists == SeqsUpTo(ImageFiles, MaxImages) \ {<<>>}

\* lines 95-98: ImageUploader hands over a non-empty list of valid files,
\* at any time (the uploader is not disabled while an analysis runs)
handleImageUpload ==
    /\ \E uploadedFiles \in ImageLists :
          page' = [page EXCEPT !.selectedImages = uploadedFiles,
                               !.analysisResults = <<>>]
    /\ UNCHANGED <<pc, req, loc, calls, writes, store, resp, users, apiKeyOk, log, elsewhere>>

\* variant of the button: disabled only without images
ButtonDisabledWithoutImages(p) == Len(p.selectedImages) = 0

\* lines 206-212: the Analyze button is disabled without images and while
\* an analysis runs
ButtonDisabled(p) == Len(p.selectedImages) = 0 \/ p.isAnalyzing

\* lines 101-123: a click on the button: the loading state is set, the
\* results are cleared and the first image is posted
analyzeProfile ==
    /\ ~ButtonDisabled(page)
    /\ page' = [page EXCEPT
                   !.isAnalyzing = TRUE,
                   !.analysisResults = <<>>,
                   !.run = [active |-> TRUE, images |-> page.selectedImages,
                            i |-> 1, results |-> <<>>, net |-> "sent"]]
    /\ UNCHANGED <<pc, req, loc, calls, writes, store, resp, users, apiKeyOk, log, elsewhere>>

\* lines 111-123: the multipart request of one image: a file in the field
\* photos, no imageUrls, no Authorization header
PageRequest ==
    [NoReq EXCEPT !.ep = ServerAnalyze, !.files = <<"1700-me.png">>]

\* the posted request reaches the server, which starts to serve it
Deliver ==
    /\ page.run.net = "sent"
    /\ page' = [page EXCEPT !.run.net = "delivered"]
    /\ req' = PageRequest
    /\ pc' = FirstStep(ServerAnalyze)
    /\ loc' = Loc0
    /\ calls' = <<>>
    /\ resp' = NoResp
    /\ log' = <<>>
    /\ UNCHANGED <<writes, store, users, apiKeyOk, elsewhere>>

\* lines 125-131: the entry pushed for a response with a body
RealResult(data, file) ==
    [analyses |-> data.analyses, overallVerdict |-> data.overallVerdict,
     overallSuggestion |-> data.overallSuggestion,
     imageSrc |-> "blob:" \o file, imageFile |-> file]

\* lines 141-147: one sample entry per image of the run's selectedImages
SampleResult(file) ==
    [description |-> "Sample analysis result due to API error.",
     verdict |-> "Needs Improvement",
     suggestion |-> "Please try again later when our service is back online.",
     imageSrc |-> "blob:" \o file, imageFile |-> file]

SampleResultsNone(images) == <<>>

SampleResults(images) == [k \in 1..Len(images) |-> SampleResult(images[k])]

\* variant of the catch block: the results pushed before the failure are
\* kept and only the remaining images get a sample entry
CaughtKeepsResults(p) ==
    [p EXCEPT !.analysisResults =
                 p.run.results \o
                 [k \in 1..(Len(p.run.images) - Len(p.run.results)) |->
                     SampleResult(p.run.images[Len(p.run.results) + k])],
              !.toast = "Failed to analyze your photos. Please try again later.",
              !.isAnalyzing = FALSE,
              !.run = NoRun]

\* lines 136-151: the catch and the finally block
Caught(p) ==
    [p EXCEPT !.analysisResults = SampleResults(p.run.images),
              !.toast = "Failed to analyze your photos. Please try again later.",
              !.isAnalyzing = FALSE,
              !.run = NoRun]

\* lines 125-135 and 149-151: the awaited post resolves with the server's
\* success response; the entry is pushed and the next image is posted, or
\* after the last image the results are set and the loading state ends
Resolved(p, data) ==
    LET results == Append(p.run.results, RealResult(data, p.run.images[p.run.i]))
    IN  IF p.run.i < Len(p.run.images)
        THEN [p EXCEPT !.run.results = results,
                       !.run.i = p.run.i + 1,
                       !.run.net = "sent"]
        ELSE [p EXCEPT !.analysisResults = results,
                       !.isAnalyzing = FALSE,
                       !.run = NoRun]

\* the server's response arrives: axios resolves on a 2xx status and
\* rejects on any other
ResponseArrives ==
    /\ page.run.net = "delivered"
    /\ pc = "done"
    /\ page' = IF resp.status = 200 THEN Resolved(page, AnalyzeBody(loc))
               ELSE Caught(page)
    /\ UNCHANGED <<pc, req, loc, calls, writes, store, resp, users, apiKeyOk, log, elsewhere>>

\* the post fails without a response (the server cannot be reached)
NetworkError ==
    /\ page.run.net = "sent"
    /\ page' = Caught(page)
    /\ UNCHANGED <<pc, req, loc, calls, writes, store, resp, users, apiKeyOk, log, elsewhere>>

\* ProfileAnalysis.tsx lines 265-282: what the results column renders
Panel(p) ==
    IF p.isAnalyzing THEN "loading"
    ELSE IF Len(p.analysisResults) > 0 THEN "results"
    ELSE "empty"

\* ProfileAnalysisResult.tsx line 137: result.score || result.overallScore || 0
Score(result) ==
    IF "score" \in DOMAIN result /\ result.score # 0 THEN result.score
    ELSE IF "overallScore" \in DOMAIN result /\ result.overallScore # 0
    THEN result.overallScore
    ELSE 0

\* ProfileAnalysisResult.tsx line 186
Badge(score) ==
    IF score >= 7 THEN "Good" ELSE IF score >= 5 THEN "Average" ELSE "Needs Work"

\* the replies of the model to the page's requests
PagePhotoOutcomes ==
    {Reply(<<LBRACE, PAIR_SCORE8, RBRACE>>),
     Reply(<<NUM, "Outdoor", "portrait", NL, NUM, "Good", NL, NUM, "Crop", "tighter">>),
     Failure("network_timeout")}
PageOverallOutcomes ==
    {Reply(<<NUM, "Solid", "selection", NL, NUM, "Add", "variety">>),
     Failure("rate_limit")}

AnalyzePhotoReturnPage == AnalyzePhotoReturnFrom(PagePhotoOutcomes)
AnalyzeOverallReturnPage == AnalyzeOverallReturnFrom(PageOverallOutcomes)

PageInit ==
    /\ pc = "idle"
    /\ req = NoReq
    /\ loc = Loc0
    /\ calls = <<>>
    /\ writes = <<>>
    /\ store = <<>>
    /\ resp = NoResp
    /\ users = [u \in UserIds |-> "profile of " \o u]
    /\ apiKeyOk \in BOOLEAN
    /\ log = <<>>
    /\ page = Page0
    /\ answered = <<>>
    /\ form = Form0
    /\ uploader = Uploader0

\* the steps of the server on the page's request
ServerSteps ==
    \/ validateRequest
    \/ AnalyzeProfileStart
    \/ AnalyzePhotoReturnPage
    \/ AnalyzeOverallReturnPage

PageNext ==
    \/ handleImageUpload
    \/ analyzeProfile
    \/ Deliver
    \/ NetworkError
    \/ ResponseArrives
    \/ ServerSteps

PageSpec == PageInit /\ [][PageNext]_vars

\* the server takes its steps, the model client ends every call with a
\* reply or an error, and a response that was sent arrives; nothing makes
\* a posted request reach the server or fail
PageFairSpec ==
    PageSpec /\ WF_vars(ServerSteps) /\ WF_vars(ResponseArrives)

(***************************************************************************)
(* The forgot-password form (src/src/components/auth/ForgotPassword.tsx).   *)
(* An address is the sequence of its characters.                            *)
(***************************************************************************)
MaxSubmits == 2    \* submissions of the form

\* the addresses that have an account
Accounts == {<<"a", "@", "b", ".", "c">>}

\* what the user types into the field
Emails ==
    {<<>>, <<" ">>, <<"a", "@", "b">>, <<"a", "@", "b", ".", "c">>,
     <<"d", "@", "b", ".", "c">>, <<"a", "@", "b", ".", "c", " ", "x">>}

\* line 28: !email.trim()
IsBlank(email) == \A n \in DOMAIN email : email[n] = " "

\* lines 17-19: /\S+@\S+\.\S+/.test(email): somewhere in the address a
\* character other than a space, an at sign, one or more characters other
\* than a space, a dot, and a character other than a space
validateEmail(email) ==
    \E i, j \in DOMAIN email :
        /\ email[i] = "@"
        /\ email[j] = "."
        /\ i > 1
        /\ j > i + 1
        /\ j < Len(email)
        /\ \A n \in (i - 1)..(j + 1) : email[n] # " "

\* line 42: how sendPasswordResetEmail(auth, email) can end: the mail is
\* sent, or the call rejects with an error code
ResetOutcomes(email) ==
    (IF \E n \in DOMAIN email : email[n] = " "
     THEN {"auth/invalid-email"}
     ELSE IF email \in Accounts THEN {"sent"}
     ELSE {"auth/user-not-found"})
    \cup {"auth/too-many-requests", "auth/network-request-failed"}

\* line 119: onChange of the field, disabled while loading (line 122) and
\* shown only until the mail is sent (line 98)
setEmail ==
    /\ ~form.emailSent
    /\ ~form.isLoading
    /\ \E e \in Emails : form' = [form EXCEPT !.email = e]
    /\ UNCHANGED <<pc, req, loc, calls, writes, store, resp, users, apiKeyOk,
                   log, page, answered, uploader>>

\* lines 21-38: the form is submitted (its button is disabled while loading,
\* line 130): the error is reset, the address is validated and the reset
\* request starts
handleSubmit ==
    /\ ~form.emailSent
    /\ ~form.isLoading
    /\ form.submits < MaxSubmits
    /\ form' =
         IF IsBlank(form.email)
         THEN [form EXCEPT !.error = "Email is required", !.submits = @ + 1]
         ELSE IF ~validateEmail(form.email)
         THEN [form EXCEPT !.error = "Please enter a valid email address",
                           !.submits = @ + 1]
         ELSE [form EXCEPT !.error = "", !.isLoading = TRUE,
                           !.submits = @ + 1]
    /\ UNCHANGED <<pc, req, loc, calls, writes, store, resp, users, apiKeyOk,
                   log, page, answered, uploader>>

\* lines 52-67: the message for an error code
ErrorMessage(code) ==
    IF code = "auth/invalid-email" THEN "Invalid email address"
    ELSE IF code = "auth/too-many-requests"
    THEN "Too many attempts. Please try again later"
    ELSE "Failed to send reset instructions"

\* what the user can see of the form: the view, the error text, the toast
\* and the loading flag
Shown(f) ==
    [emailSent |-> f.emailSent, error |-> f.error, toast |-> f.toast,
     isLoading |-> f.isLoading]

\* lines 40-77: the reset request settles: the try block, the catch block
\* and the finally block
AfterReset(f, outcome) ==
    IF outcome = "sent"
    THEN [f EXCEPT !.emailSent = TRUE, !.isLoading = FALSE,
            !.toast = [title |-> "Reset email sent",
                       description |->
                         "Check your inbox for password reset instructions",
                       variant |-> ""]]
    ELSE IF outcome = "auth/user-not-found"
    THEN [f EXCEPT !.emailSent = TRUE, !.isLoading = FALSE,
            !.toast = [title |-> "Reset email sent",
                       description |->
                         "If an account exists with this email, you will receive reset instructions",
                       variant |-> ""]]
    ELSE [f EXCEPT !.error = ErrorMessage(outcome), !.isLoading = FALSE,
            !.toast = [title |-> "Error",
                       description |-> ErrorMessage(outcome),
                       variant |-> "destructive"]]

ResetSettles ==
    /\ form.isLoading
    /\ \E outcome \in ResetOutcomes(form.email) :
          LET after == AfterReset(form, outcome)
          IN  /\ form' =
                   IF outcome \in {"sent", "auth/user-not-found"}
                   THEN [after EXCEPT !.seen =
                           @ \cup {[account |-> form.email \in Accounts,
                                    shown |-> Shown(after)]}]
                   ELSE after
              /\ log' = IF outcome = "sent" THEN log
                        ELSE ConsoleError(log, "Password reset error:",
                                          outcome)
    /\ UNCHANGED <<pc, req, loc, calls, writes, store, resp, users, apiKeyOk,
                   page, answered, uploader>>

\* lines 80-83: Try another email
handleTryAgain ==
    /\ form.emailSent
    /\ form' = [form EXCEPT !.emailSent = FALSE, !.email = <<>>]
    /\ UNCHANGED <<pc, req, loc, calls, writes, store, resp, users, apiKeyOk,
                   log, page, answered, uploader>>

ForgotInit == StoreInit

ForgotNext ==
    \/ setEmail
    \/ handleSubmit
    \/ ResetSettles
    \/ handleTryAgain

ForgotSpec == ForgotInit /\ [][ForgotNext]_vars

(***************************************************************************)
(* The image uploader (src/src/components/ImageUploader.tsx) inside the     *)
(* profile-analysis page.  A file has a name (its parts between dots), a    *)
(* MIME type and a size in bytes; a preview is the data URL of a file.      *)
(***************************************************************************)
MaxSelections == 2    \* selections and drops of files

maxSizeMB == 5
maxSizeBytes == maxSizeMB * 1024 * 1024

UploadFiles ==
    {[name |-> <<"me", "png">>, type |-> "image/png", size |-> 1000000],
     [name |-> <<"dog", "PNG">>, type |-> "", size |-> 2000000],
     [name |-> <<"notes", "pdf">>, type |-> "application/pdf",
      size |-> 1000000],
     [name |-> <<"huge", "jpg">>, type |-> "image/jpeg", size |-> 6000000]}

\* the files of one selection: one or more different files
UploadLists ==
    {l \in SeqsUpTo(UploadFiles, MaxImages) \ {<<>>} :
        \A m, n \in DOMAIN l : m # n => l[m] # l[n]}

toLowerCase(part) ==
    IF part = "PNG" THEN "png" ELSE IF part = "JPG" THEN "jpg" ELSE part

\* line 64: file.name.split('.').pop()?.toLowerCase() || ''
fileExt(file) == toLowerCase(file.name[Len(file.name)])

\* lines 65-71: the type mentions jpeg, jpg or png, or the extension is one
\* of them
isValidType(file) ==
    \/ file.type \in {"image/jpeg", "image/jpg", "image/png"}
    \/ fileExt(file) \in {"jpg", "jpeg", "png"}

\* lines 62-96: the files that pass both checks, in the order given
validFiles(files) ==
    SelectSeq(files, LAMBDA f : isValidType(f) /\ f.size <= maxSizeBytes)

\* lines 74-83: the toast of the last file that was turned down
UploadToast(files, before) ==
    LET bad == SelectSeq(files, LAMBDA f :
                   ~(isValidType(f) /\ f.size <= maxSizeBytes))
    IN  IF bad = <<>> THEN before
        ELSE IF ~isValidType(bad[Len(bad)]) THEN "Invalid file type"
        ELSE "File is too large"

\* lines 86-93: reader.readAsDataURL(file)
DataUrl(file) == [dataUrlOf |-> file.name]

\* lines 57-102: each valid file gets a reader that will push its preview
\* onto this call's copy of previews; the valid files, if any, are handed
\* to the page at once (ProfileAnalysis.tsx lines 95-98)
validateAndUpload(files, dragging) ==
    LET valid == validFiles(files)
    IN  /\ uploader' =
             [uploader EXCEPT
                !.isDragging = dragging,
                !.selections = @ + 1,
                !.batches = IF valid = <<>> THEN @
                            ELSE Append(@, [newPreviews |-> uploader.previews,
                                            reading |-> Range(valid)])]
        /\ page' =
             IF valid = <<>>
             THEN [page EXCEPT !.toast = UploadToast(files, @)]
             ELSE [page EXCEPT !.toast = UploadToast(files, @),
                               !.selectedImages = valid,
                               !.analysisResults = <<>>]

\* lines 29-32 and 165-175: files are dragged over the drop zone, which is
\* rendered while there is no preview
handleDragOver ==
    /\ Len(uploader.previews) = 0
    /\ uploader' = [uploader EXCEPT !.isDragging = TRUE]
    /\ UNCHANGED <<pc, req, loc, calls, writes, store, resp, users, apiKeyOk,
                   log, page, answered, form>>

\* lines 34-36: the files leave the drop zone
handleDragLeave ==
    /\ Len(uploader.previews) = 0
    /\ uploader.isDragging
    /\ uploader' = [uploader EXCEPT !.isDragging = FALSE]
    /\ UNCHANGED <<pc, req, loc, calls, writes, store, resp, users, apiKeyOk,
                   log, page, answered, form>>

\* lines 38-47: the files are dropped on the drop zone
handleDrop ==
    /\ Len(uploader.previews) = 0
    /\ uploader.selections < MaxSelections
    /\ \E files \in UploadLists : validateAndUpload(files, FALSE)
    /\ UNCHANGED <<pc, req, loc, calls, writes, store, resp, users, apiKeyOk,
                   log, answered, form>>

\* lines 49-55 and 192-199: files are chosen with the file input, which is
\* rendered while there is no preview
handleFileChange ==
    /\ Len(uploader.previews) = 0
    /\ uploader.selections < MaxSelections
    /\ \E files \in UploadLists :
          validateAndUpload(files, uploader.isDragging)
    /\ UNCHANGED <<pc, req, loc, calls, writes, store, resp, users, apiKeyOk,
                   log, answered, form>>

\* lines 87-92: a reader has loaded its file: the preview is pushed onto
\* the array of its call and that array becomes the previews
ReaderLoads ==
    /\ \E b \in DOMAIN uploader.batches :
          \E file \in uploader.batches[b].reading :
             LET newPreviews == Append(uploader.batches[b].newPreviews,
                                       DataUrl(file))
                 left == uploader.batches[b].reading \ {file}
                 batch == [newPreviews |-> newPreviews, reading |-> left]
                 others == [n \in DOMAIN uploader.batches |->
                              IF n = b THEN batch ELSE uploader.batches[n]]
             IN  uploader' =
                    [uploader EXCEPT
                       !.previews = newPreviews,
                       !.batches = SelectSeq(others,
                                      LAMBDA x : x.reading # {})]
    /\ UNCHANGED <<pc, req, loc, calls, writes, store, resp, users, apiKeyOk,
                   log, page, answered, form>>

\* lines 104-113: the X of one preview
clearImage ==
    /\ \E index \in DOMAIN uploader.previews :
          uploader' =
             [uploader EXCEPT !.previews =
                [n \in 1..(Len(@) - 1) |-> IF n < index THEN @[n]
                                           ELSE @[n + 1]]]
    /\ UNCHANGED <<pc, req, loc, calls, writes, store, resp, users, apiKeyOk,
                   log, page, answered, form>>

\* lines 115-120 and 155-163: Clear All, rendered while there are previews
clearAllImages ==
    /\ Len(uploader.previews) > 0
    /\ uploader' = [uploader EXCEPT !.previews = <<>>]
    /\ UNCHANGED <<pc, req, loc, calls, writes, store, resp, users, apiKeyOk,
                   log, page, answered, form>>

UploaderInit == StoreInit

UploaderNext ==
    \/ handleDragOver
    \/ handleDragLeave
    \/ handleDrop
    \/ handleFileChange
    \/ ReaderLoads
    \/ clearImage
    \/ clearAllImages

UploaderSpec == UploaderInit /\ [][UploaderNext]_vars


(***************************************************************************)
(* Properties                                                               *)
(***************************************************************************)
\* the request carries a bearer token that verifyIdToken accepts
TokenVerified(r) ==
    /\ StartsWithBearer(r.authorization)
    /\ VerifyIdToken(BearerToken(r.authorization)) # ""

ModelEndpoints ==
    {ServerAnalyze, ServerBio, ServerImprove, ServerStarters, ServerImage,
     ServerPrompts, RouterAnalyze, RouterBio, RouterSuggest, RouterPunchup}

\* the request has been answered
Answered == pc = "done"

\* every model call of the request came back with a reply
AllCallsReplied ==
    calls # <<>> /\ \A i \in 1..Len(calls) : calls[i].outcome.ok

\* some model call of the request failed
SomeCallFailed ==
    \E i \in 1..Len(calls) :
        ~calls[i].outcome.ok /\ calls[i].outcome.err \in ErrKinds

\* every write handed to the store was stored
AllWritesStored == Len(store) = Len(writes)

ProviderMessages == {ErrMessage(k) : k \in ErrKinds}

\* C1: on every endpoint that calls the model, no model call is issued for
\* a request whose bearer token is missing or fails verification.
C1_NoModelCallWithoutToken ==
    req.ep \in ModelEndpoints /\ calls # <<>> => TokenVerified(req)

\* C2: GET /api/profile/:userId returns no user document, and PUT
\* /api/profile/:userId updates none, for a request without a verified
\* identity token.
C2_ProfileNeedsIdentity ==
    /\ req.ep = ProfileGet /\ loc.userDoc # "" => TokenVerified(req)
    /\ req.ep = ProfilePut /\ (\E u \in UserIds : users[u] = "updated by request")
           => TokenVerified(req)

\* a request with no usable content, as the three content checks see it
NoContent(r) ==
    \/ /\ r.ep = ServerAnalyze
       /\ r.files = <<>>
       /\ r.listKind = "absent" \/ r.list = <<>>
    \/ /\ r.ep = RouterAnalyze
       /\ r.listKind = "array"
       /\ r.list = <<>>
    \/ /\ r.ep = ServerBio
       /\ r.fields \subseteq {"culturalContext"}

\* C3 as stated: a request with no usable content is answered with a 400,
\* and causes no model call and no store write.
C3_NoContentAlways400 ==
    NoContent(req) =>
        /\ calls = <<>> /\ writes = <<>> /\ store = <<>>
        /\ Answered => resp.status = 400

\* the status a request without content is answered with: the token check
\* of the route, then its validators, then the API-key check of the
\* server's analyze-profile come before the content check
NoContentStatus(r) ==
    IF (HasVerifyFirebaseToken(r.ep) \/ HasVerifyAuth(r.ep)) /\ ~TokenVerified(r)
    THEN 401
    ELSE IF r.ep = ServerAnalyze /\ r.valid /\ ~apiKeyOk THEN 500
    ELSE 400

\* C3 amended: a request with no usable content causes no model call and
\* no store write and is never answered with success; it is answered with
\* 400 unless the route's token check rejects it first with 401 or the
\* API-key check of the server's analyze-profile rejects it first with 500.
C3_NoContentRejected ==
    NoContent(req) =>
        /\ calls = <<>> /\ writes = <<>> /\ store = <<>>
        /\ Answered => resp.status = NoContentStatus(req)

\* an authenticated generate-bio request carrying only culturalContext has
\* been answered by the content check
C3_Witness ==
    /\ req.ep = ServerBio
    /\ req.fields = {"culturalContext"}
    /\ TokenVerified(req)
    /\ req.valid
    /\ Answered
    /\ resp.status = 400
    /\ resp.error = "At least one field is required"

\* C4: whatever the model replies, parsing the reply never fails the
\* request: when every model call came back with a reply (and the store
\* took every write) the request is answered with success.
C4_ParsingNeverFails ==
    Answered /\ AllCallsReplied /\ AllWritesStored => resp.status = 200

\* C5: a failing model call during profile analysis (server and router)
\* still ends in a success response and the provider's error text is not
\* in the response.
C5_CallFailureFallsBack ==
    /\ req.ep \in {ServerAnalyze, RouterAnalyze}
    /\ Answered
    /\ SomeCallFailed
    /\ AllWritesStored
    => /\ resp.status = 200
       /\ resp.message \notin ProviderMessages

\* C6: a failing store write never keeps the result from the caller: the
\* request whose write failed is still answered with success.
C6_StoreFailureReturnsResult ==
    Answered /\ ~AllWritesStored => resp.status = 200


\* C7: in every success response of the server's analyze-profile for a
\* request with N photo URLs, analyses has exactly N entries; entry i is
\* the outcome of the model call for photo i, whatever mix of successes and
\* failures the N calls had.
C7_OneEntryPerPhoto ==
    req.ep = ServerAnalyze /\ resp.status = 200 =>
        LET N == IF req.files # <<>> THEN Len(req.files) ELSE Len(req.list)
        IN  /\ Len(loc.photoUrls) = N
            /\ Len(loc.analyses) = N
            /\ Len(calls) >= N
            /\ \A i \in 1..N :
                  /\ calls[i].kind = "photo"
                  /\ calls[i].images = <<loc.photoUrls[i]>>
                  /\ calls[i].outcome # Pending
                  /\ loc.analyses[i] = PhotoEntry(calls[i].outcome)

\* a two-photo request answered with success whose first call failed and
\* whose second call was classified Good
C7_Witness ==
    /\ req.ep = ServerAnalyze
    /\ resp.status = 200
    /\ Len(loc.photoUrls) = 2
    /\ ~calls[1].outcome.ok
    /\ loc.analyses[1] = CallErrorEntry
    /\ calls[2].outcome.ok
    /\ loc.analyses[2].verdict = "Good"

\* C8: the per-photo verdict is total and three-valued: Good when the
\* verdict text starts with "Good", else Okay when it starts with "Okay",
\* else Needs Improvement; every entry of analyses, the two placeholder
\* entries included, carries one of the three verdicts.
C8_VerdictThreeValued ==
    \A i \in 1..Len(loc.analyses) :
       LET o == calls[i].outcome
           v == loc.analyses[i].verdict
       IN  /\ v \in {"Good", "Okay", "Needs Improvement"}
           /\ o.ok /\ o.content # NullContent
                   /\ Len(SplitNumbered(o.content)) >= 4 =>
                 LET text == Trim(SplitNumbered(o.content)[3])
                 IN  /\ StartsWith(text, "Good") => v = "Good"
                     /\ ~StartsWith(text, "Good") /\ StartsWith(text, "Okay")
                            => v = "Okay"
                     /\ ~StartsWith(text, "Good") /\ ~StartsWith(text, "Okay")
                            => v = "Needs Improvement"

\* a reply whose verdict text is "Goodish" followed by more text has been
\* classified Good
C8_Witness ==
    /\ req.ep = ServerAnalyze
    /\ Len(loc.analyses) = 1
    /\ calls[1].outcome.ok
    /\ calls[1].outcome.content = <<NUM, NUM, "Goodish", NUM>>
    /\ loc.analyses[1].verdict = "Good"

\* the reply is, in its entirety, a well-formed JSON object
WholeObject(content) ==
    /\ content # NullContent
    /\ Trim(content) # <<>>
    /\ Head(Trim(content)) = LBRACE
    /\ JSONparse(content).ok

\* C9: when the reply is in its entirety a well-formed JSON object, the
\* extractor of the router's analyze-profile returns it: the result, the
\* persisted record and the members of the response equal the parsed
\* object, the response adding only the document id.
C9_WholeObjectReturned ==
    /\ req.ep = RouterAnalyze
    /\ calls # <<>>
    /\ calls[1].outcome.ok
    /\ WholeObject(calls[1].outcome.content)
    => LET obj == JSONparse(calls[1].outcome.content).val
       IN  /\ loc.analysisResult.parsed
           /\ loc.analysisResult.val = obj
           /\ Len(writes) = 1 /\ writes[1].result.val = obj
           /\ resp.status = 200 =>
                 /\ Len(store) = 1 /\ store[1].result.val = obj
                 /\ RouterAnalyzeBody(loc) =
                        [id |-> DocId(1), members |-> FieldsOf(obj),
                         rawKey |-> "", raw |-> <<>>]

\* a reply that is an object with a nested object has been stored and
\* returned
C9_Witness ==
    /\ req.ep = RouterAnalyze
    /\ resp.status = 200
    /\ calls[1].outcome.content =
           <<LBRACE, KEY_IMPRESSION, LBRACE, PAIR_STRENGTHS, RBRACE, COMMA,
             PAIR_SCORE, RBRACE, NL>>
    /\ loc.analysisResult.parsed
    /\ <<<<"firstImpression", "strengths">>, "[\"Good lighting\"]">>
           \in store[1].result.val

\* the brace-delimited JSON objects of a text: the spans that parse as an
\* object, and those of them that lie in no other
ObjectSpans(s) ==
    {sp \in (1..Len(s)) \X (1..Len(s)) :
        /\ sp[1] < sp[2]
        /\ s[sp[1]] = LBRACE
        /\ s[sp[2]] = RBRACE
        /\ JSONparse(SubSeq(s, sp[1], sp[2])).ok}

TopLevelSpans(s) ==
    {sp \in ObjectSpans(s) :
        \A other \in ObjectSpans(s) :
            other[1] <= sp[1] /\ sp[2] <= other[2] => other = sp}

\* C10: when the reply holds exactly one brace-delimited JSON object with
\* other text around it, the extractor of the router's analyze-profile
\* recovers that object.
C10_EmbeddedObjectRecovered ==
    /\ req.ep = RouterAnalyze
    /\ calls # <<>>
    /\ calls[1].outcome.ok
    /\ calls[1].outcome.content # NullContent
    /\ Cardinality(TopLevelSpans(calls[1].outcome.content)) = 1
    => LET s == calls[1].outcome.content
           sp == CHOOSE x \in TopLevelSpans(s) : TRUE
       IN  /\ loc.analysisResult.parsed
           /\ loc.analysisResult.val = JSONparse(SubSeq(s, sp[1], sp[2])).val

\* the sections of a reply that are headed as the messages and list three
\* numbered items
MessageSections(content) ==
    LET sections == SplitSections(content, <<>>)
    IN  {sections[i] : i \in
            {j \in DOMAIN sections :
                /\ sections[j] # <<>>
                /\ Head(sections[j]) = MSG_HEAD
                /\ Len(NumberedLines(sections[j])) = 3}}

\* C11: when a reply lists three numbered items in a section headed as the
\* messages, a successful conversation-starters response carries exactly
\* those three items as its messages, in their order.
C11_ThreeMessagesRecovered ==
    /\ req.ep = ServerStarters
    /\ resp.status = 200
    => \A section \in MessageSections(calls[1].outcome.content) :
          loc.starters.messages = NumberedLines(section)

StarterEndpoints == {ServerStarters, ServerImage}

\* C12: every success response of the conversation-starters and of the
\* process-image endpoint has at least one message, one follow-up and one
\* tip.
C12_CategoriesNeverEmpty ==
    /\ req.ep \in StarterEndpoints
    /\ resp.status = 200
    => /\ loc.starters.messages # <<>>
       /\ loc.starters.followUps # <<>>
       /\ loc.starters.tips # <<>>

\* a per-photo reply that the handler parsed in full: it split into the
\* three numbered parts
FullyParsed(outcome) ==
    /\ outcome.ok
    /\ outcome.content # NullContent
    /\ Len(SplitNumbered(outcome.content)) >= 4

FallbackEntries == {ParseFallbackEntry, CallErrorEntry}

\* C16: in the server's analyze-profile, the entry of a reply that was
\* parsed in full is never equal to one of the entries written for a reply
\* that could not be parsed or for a failed call.
C16_FallbackDistinguishable ==
    req.ep = ServerAnalyze
    => \A i \in 1..Len(loc.analyses) :
          FullyParsed(calls[i].outcome) => loc.analyses[i] \notin FallbackEntries

\* the kinds of the model calls that have failed, in the order of the calls
FailedKinds ==
    LET failed == SelectSeq(calls, LAMBDA c : ~c.outcome.ok /\ c.outcome # Pending)
    IN  [i \in 1..Len(failed) |-> failed[i].outcome.err]

\* the kinds read back from the provider messages of the error log
LoggedKinds ==
    LET lines == SelectSeq(log, LAMBDA l : l.message \in ProviderMessages)
    IN  [i \in 1..Len(lines) |->
            CHOOSE k \in ErrKinds : ErrMessage(k) = lines[i].message]

C18_OneWritePerResult ==
    /\ req.ep \in {ServerAnalyze, RouterAnalyze}
    /\ resp.status = 200
    => /\ Len(store) = 1
       /\ store[1].userId = req.user
       /\ store[1].timestamp # ""

\* C19: the router's analysis call states the number of the request's
\* photos in its prompt, and its user message is the text part followed by
\* the request's photos in their order.
C19_PhotosSentInOrder ==
    /\ req.ep = RouterAnalyze
    /\ calls # <<>>
    => /\ Len(req.list) >= 1
       /\ calls[1].count = Len(req.list)
       /\ calls[1].parts = <<"text">> \o req.list

\* a request with two different photos has been sent to the model
C19_Witness ==
    /\ req.ep = RouterAnalyze
    /\ calls # <<>>
    /\ req.list = <<"https://img/b.jpg", "https://img/a.jpg">>
    /\ calls[1].parts = <<"text", "https://img/b.jpg", "https://img/a.jpg">>
    /\ calls[1].count = 2

\* the file names of the images a result list was made for
ImagesOf(results) == [k \in 1..Len(results) |-> results[k].imageFile]

\* C13: the results on the page are those of the latest selection: a result
\* list that is shown was made for the images that are selected.
C13_LastSubmissionWins ==
    page.analysisResults # <<>>
    => ImagesOf(page.analysisResults) = page.selectedImages

\* C14: an analysis that has started ends: the loading state is left.
C14_AnalysisEnds == page.isAnalyzing ~> ~page.isAnalyzing

IsSample(result) ==
    /\ "description" \in DOMAIN result
    /\ result.description = "Sample analysis result due to API error."

Loading(p) == Panel(p) = "loading"
Success(p) ==
    /\ Panel(p) = "results"
    /\ \A k \in DOMAIN p.analysisResults : ~IsSample(p.analysisResults[k])
Failed(p) ==
    /\ Panel(p) = "results"
    /\ \A k \in DOMAIN p.analysisResults : IsSample(p.analysisResults[k])
Empty(p) == Panel(p) = "empty"

ExactlyOne(flags) == Cardinality({k \in DOMAIN flags : flags[k]}) = 1

\* C15 as stated: the page is always in exactly one of the states loading,
\* success and failed.
C15_AlwaysOneOfThree ==
    ExactlyOne(<<Loading(page), Success(page), Failed(page)>>)

\* C15: the page is always in exactly one of the states loading, success,
\* failed and empty, and the step that ends a run leaves a non-empty result
\* list on the panel, all of it real or all of it sample.
C15_FinishedRunShowsResults ==
    [][/\ ExactlyOne(<<Loading(page'), Success(page'), Failed(page'),
                       Empty(page')>>)
       /\ page.isAnalyzing /\ ~page'.isAnalyzing
          => /\ Panel(page') = "results"
             /\ Success(page') \/ Failed(page')]_vars

\* a run of two images has failed and the panel shows their two samples
C15_Witness ==
    /\ ~page.isAnalyzing
    /\ Failed(page)
    /\ ImagesOf(page.analysisResults) = <<"me.png", "dog.png">>
    /\ page.toast # ""

\* C20: after a run of one image whose reply was {"overallScore":8}, the
\* result card shows the badge Good.
C20_Score8ShowsGood ==
    /\ Success(page)
    /\ Len(page.analysisResults) = 1
    /\ calls # <<>>
    /\ calls[1].outcome = Reply(<<LBRACE, PAIR_SCORE8, RBRACE>>)
    => Badge(Score(page.analysisResults[1])) = "Good"

\* C21: a server analyze-profile request that the handler accepts is served
\* by one per-photo call for each of its N >= 1 photos, in their order and
\* one at a time (a call is issued only when every earlier one has
\* returned or failed), then by exactly one overall call, also when every
\* per-photo call failed; the success response follows these N + 1 calls.
C21_CallsOneAfterAnother ==
    LET photoUrls == PhotoUrlsOf(req)
        N == Len(photoUrls)
    IN  /\ req.ep = ServerAnalyze /\ calls # <<>>
           => /\ N >= 1
              /\ Len(calls) <= N + 1
              /\ \A i \in DOMAIN calls :
                    /\ i <= N => /\ calls[i].kind = "photo"
                                 /\ calls[i].images = <<photoUrls[i]>>
                    /\ i = N + 1 => calls[i].kind = "overall"
                    /\ i < Len(calls) => calls[i].outcome # Pending
        /\ req.ep = ServerAnalyze /\ pc = "done" /\ req.valid /\ apiKeyOk /\ N >= 1
           => /\ resp.status = 200
              /\ Len(calls) = N + 1
              /\ calls[N + 1].outcome # Pending

\* two photos whose calls both failed were followed by the overall call
C21_Witness ==
    /\ req.ep = ServerAnalyze
    /\ resp.status = 200
    /\ Len(calls) = 3
    /\ ~calls[1].outcome.ok
    /\ ~calls[2].outcome.ok
    /\ loc.analyses = <<CallErrorEntry, CallErrorEntry>>
    /\ calls[3].kind = "overall"

\* the router's analysis call has returned a reply with text
AnalysisReplied ==
    /\ req.ep = RouterAnalyze
    /\ calls # <<>>
    /\ calls[1].outcome.ok
    /\ calls[1].outcome.content # NullContent

\* C22: when the reply has a fenced json block whose content does not
\* parse and also holds a brace-delimited object that parses, the router's
\* extractor recovers a brace-delimited object of the reply.
C22_FenceFailureHandsOver ==
    /\ AnalysisReplied
    /\ FenceMatch(calls[1].outcome.content).found
    /\ ~JSONparse(FenceMatch(calls[1].outcome.content).group).ok
    /\ ObjectSpans(calls[1].outcome.content) # {}
    => LET s == calls[1].outcome.content
       IN  /\ loc.analysisResult.parsed
           /\ \E sp \in ObjectSpans(s) :
                 loc.analysisResult.val = JSONparse(SubSeq(s, sp[1], sp[2])).val

\* C23: when the reply has no fenced block, the router's extractor returns
\* the first top-level brace-delimited object of the reply, whatever
\* follows it.
C23_FirstObjectParsed ==
    /\ AnalysisReplied
    /\ ~FenceMatch(calls[1].outcome.content).found
    /\ TopLevelSpans(calls[1].outcome.content) # {}
    => LET s == calls[1].outcome.content
           first == CHOOSE sp \in TopLevelSpans(s) :
                       \A other \in TopLevelSpans(s) : sp[1] <= other[1]
       IN  /\ loc.analysisResult.parsed
           /\ loc.analysisResult.val =
                  JSONparse(SubSeq(s, first[1], first[2])).val

\* a starters request has been answered with success
StartersAnswered ==
    /\ req.ep \in StarterEndpoints
    /\ resp.status = 200

\* the reply to the starters call of the request
StartersReply == calls[Len(calls)].outcome.content

\* C24: the sections keep their categories: no numbered line of a section
\* headed as the tips is among the messages of a success response.
C24_SectionsKeepCategory ==
    StartersAnswered
    => LET sections == SplitSections(StartersReply, <<>>)
       IN  \A i \in DOMAIN sections :
              sections[i] # <<>> /\ Head(sections[i]) = TIP_HEAD
              => Range(NumberedLines(sections[i]))
                    \cap Range(loc.starters.messages) = {}

\* C25: each category of a success response holds at most three items.
C25_AtMostThreePerCategory ==
    StartersAnswered
    => /\ Len(loc.starters.messages) <= 3
       /\ Len(loc.starters.followUps) <= 3
       /\ Len(loc.starters.tips) <= 3

\* the analysis records in the store
AnalysisRecords ==
    SelectSeq(store, LAMBDA d : d.collection \in {"profile_analyses",
                                                  "profileAnalyses"})

\* the analyze-profile requests that were answered with their result
CompletedAnalyses ==
    SelectSeq(answered, LAMBDA a : a.ep \in AnalyzeRoutes /\ a.status = 200)

\* C26: between requests, the store holds one analysis record for each
\* analyze-profile request that was completed: no record was replaced.
C26_OneRecordPerRequest ==
    pc = "idle" => Len(AnalysisRecords) = Len(CompletedAnalyses)

\* C27: the forgot-password form shows the same thing after a reset request
\* for an address with an account and after one for an address without:
\* view, error text, toast title and description, loading flag.
C27_ResetRevealsNothing ==
    \A a, b \in form.seen : a.shown = b.shown

\* C28: once every file reader has loaded, the previews shown are the
\* previews of exactly the images in the page's selectedImages, which is
\* what the next analyzeProfile sends.
C28_PreviewsAreTheSelection ==
    uploader.batches = <<>> =>
        /\ Len(uploader.previews) = Len(page.selectedImages)
        /\ Range(uploader.previews)
              = {DataUrl(file) : file \in Range(page.selectedImages)}

\* this step ends the analyzeProfile run
RunFinishes == page.run.active /\ ~page'.run.active

\* the request the run awaits in this step fails: no response, or a
\* response with an error status
RequestFails ==
    \/ page.run.net = "sent"
    \/ page.run.net = "delivered" /\ resp.status # 200

\* C29: a run of analyzeProfile is all-or-nothing: the step that ends it
\* sets one entry per image of the run, in the order of the selection: if
\* the request it awaited failed, every entry is a sample entry with the
\* verdict Needs Improvement, whatever was pushed before; otherwise every
\* entry is the result of a response.
C29_AllOrNothing ==
    [][RunFinishes =>
          LET results == page'.analysisResults
          IN  /\ ImagesOf(results) = page.run.images
              /\ IF RequestFails
                 THEN \A k \in DOMAIN results :
                         /\ IsSample(results[k])
                         /\ results[k].verdict = "Needs Improvement"
                 ELSE \A k \in DOMAIN results :
                         /\ ~IsSample(results[k])
                         /\ "analyses" \in DOMAIN results[k]]_vars

\* a run of two images has ended with two sample entries after the server
\* had answered its first request with success
C29_Witness ==
    /\ ~page.run.active
    /\ Len(page.analysisResults) = 2
    /\ \A k \in DOMAIN page.analysisResults : IsSample(page.analysisResults[k])
    /\ pc = "done"
    /\ resp.status = 200

\* this step starts a run of analyzeProfile: its first image is posted
RunStarts ==
    /\ page'.run.active
    /\ page'.run.i = 1
    /\ page'.run.results = <<>>
    /\ page'.run.net = "sent"
    /\ page'.run # page.run

\* C30: one run of analyzeProfile at a time: a run starts only while
\* isAnalyzing is false and no run is under way, and isAnalyzing is true
\* exactly while a run is under way, from its start to the step that sets
\* its results.
C30_OneRunAtATime ==
    [][/\ RunStarts => ~page.isAnalyzing /\ ~page.run.active
       /\ page.isAnalyzing <=> page.run.active
       /\ page'.isAnalyzing <=> page'.run.active]_vars

\* a run awaits the answer to its second image: images are selected and the
\* button is disabled
C30_Witness ==
    /\ page.isAnalyzing
    /\ page.run.i = 2
    /\ page.run.net = "delivered"
    /\ Len(page.selectedImages) > 0
    /\ ButtonDisabled(page)

====
